---- MODULE Spec2Model ----
(***************************************************************************)
(* Client-side session/event synchronisation of opencode-gui.              *)
(*                                                                         *)
(* Two implementations of the same store live in the repository:           *)
(*   - the zustand store  useOpencodeStore  (components/chat/              *)
(*     chat-timeline.tsx, lines 190-703), modelled by the variables        *)
(*     state / pending and the specification Spec;                         *)
(*   - the React context provider  OpencodeProvider                        *)
(*     (state/opencode-store.tsx), modelled by the variables               *)
(*     ctx / ctxPending and the specification SpecCtx.              *)
(* The opencode server is an external collaborator: the events it emits    *)
(* and the bodies of its REST responses are drawn from bounded sets.       *)
(***************************************************************************)
EXTENDS Integers, Sequences, FiniteSets, Bags, TLC

(***************************************************************************)
(* Bounds of the model.                                                    *)
(***************************************************************************)
\* time.updated / time.created range over 1..MaxTime
MaxTime == 2
\* at most MaxInflight REST calls of the zustand store await their response
MaxInflight == 1
\* at most MaxCtxInflight REST calls of the context provider await, those issued
\* by the effects of a render included
MaxCtxInflight == 3
\* a callback of the context provider issues a REST call only while fewer than
\* MaxCtxCalls await
MaxCtxCalls == 1
\* the ordering scenario delivers message.created events stamped 1..MaxOrdTime
MaxOrdTime == 3
\* at most MaxPrompts prompt calls of the store overlap
MaxPrompts == 2
\* where the store's fetches overlap, at most MaxOverlap of them await at once
MaxOverlap == 2
\* a provider opens at most MaxSources event sources in a behaviour
MaxSources == 3
\* at most MaxFileCalls requests of the file store await their response
MaxFileCalls == 2
\* at most MaxTreeCalls expand and collapse calls are made on a directory
MaxTreeCalls == 3
\* the changed-set takes at most MaxUpdates new values
MaxUpdates == 3
\* at most MaxTimers refresh timers run at a time
MaxTimers == 3
\* the recent models read from local storage are at most MaxStored, or seven
MaxStored == 2

SessionIDs == {"s1", "s2"}
MessageIDs == {"m1", "m2", "m3", "m4"}
\* part ids in localeCompare order
PartIDSeq == <<"p1", "p2">>
PartIDs == {PartIDSeq[i] : i \in 1..Len(PartIDSeq)}
Statuses == {"pending", "running", "completed", "error"}
Times == 1..MaxTime

\* JavaScript's undefined, for the optional string fields
Undefined == "undefined"
\* an optional object (activeSession?: SessionInfo) is a sequence of length <= 1
None == <<>>
Some(x) == <<x>>

\* the session a message id belongs to (message ids are globally unique)
MsgOwner(m) == IF m = "m4" THEN "s2" ELSE "s1"

(***************************************************************************)
(* Values carried by events and REST responses (types of                   *)
(* context/local.tsx: SessionInfo, MessageInfo, PartBase, MessageWithParts)*)
(***************************************************************************)
SessionInfo == [id : SessionIDs, updated : Times]
MessageInfo == {i \in [id : MessageIDs, sessionID : SessionIDs, created : Times] :
                  i.sessionID = MsgOwner(i.id)}
\* a tool part: status is state.status, output is state.output (Undefined unless set)
Outputs == {Undefined, "x"}
MessagePart == {p \in [id : PartIDs, messageID : MessageIDs, sessionID : SessionIDs,
                       status : Statuses, output : Outputs] :
                  p.sessionID = MsgOwner(p.messageID)}

Range(s) == {s[i] : i \in 1..Len(s)}
Ids(list) == {list[i].id : i \in 1..Len(list)}
MsgIds(list) == {list[i].info.id : i \in 1..Len(list)}
NoDupIds(list) == \A i, j \in 1..Len(list) : list[i].id = list[j].id => i = j
NoDupMsgIds(list) == \A i, j \in 1..Len(list) : list[i].info.id = list[j].info.id => i = j

\* list.findIndex((item) => item.id === id): the first such index, 0 if none
IndexOfId(list, id) ==
  IF \E i \in 1..Len(list) : list[i].id = id
  THEN CHOOSE i \in 1..Len(list) : list[i].id = id /\ \A j \in 1..(i - 1) : list[j].id # id
  ELSE 0

\* the variant that never finds the id
IndexOfMessageNotFound(list, id) == 0

\* list.findIndex((item) => item.info.id === id): the first such index, 0 if none
IndexOfMessage(list, id) ==
  IF \E i \in 1..Len(list) : list[i].info.id = id
  THEN CHOOSE i \in 1..Len(list) :
         list[i].info.id = id /\ \A j \in 1..(i - 1) : list[j].info.id # id
  ELSE 0

\* list.filter((item) => item.id !== id)
WithoutId(list, id) ==
  LET f[i \in 0..Len(list)] ==
        IF i = 0 THEN <<>>
        ELSE IF list[i].id # id THEN Append(f[i - 1], list[i]) ELSE f[i - 1]
  IN f[Len(list)]

\* list.filter((item) => item.info.id !== id)
WithoutMessage(list, id) ==
  LET f[i \in 0..Len(list)] ==
        IF i = 0 THEN <<>>
        ELSE IF list[i].info.id # id THEN Append(f[i - 1], list[i]) ELSE f[i - 1]
  IN f[Len(list)]

PartRank(id) == CHOOSE i \in 1..Len(PartIDSeq) : PartIDSeq[i] = id

\* (a, b) => b.time.updated - a.time.updated
CmpSessions(a, b) == b.updated - a.updated
\* (a, b) => (a.info.time.created ?? 0) - (b.info.time.created ?? 0)
CmpMessages(a, b) == a.info.created - b.info.created
\* (a, b) => a.id.localeCompare(b.id)
CmpParts(a, b) == PartRank(a.id) - PartRank(b.id)

\* Array.prototype.sort is stable: building the result left to right, x goes after
\* the n elements that do not compare greater than it.
InsertAfter(sorted, n, x) ==
  SubSeq(sorted, 1, n) \o <<x>> \o SubSeq(sorted, n + 1, Len(sorted))

\* copy.sort((a, b) => b.time.updated - a.time.updated)
SortSessions(list) ==
  LET f[i \in 0..Len(list)] ==
        IF i = 0 THEN <<>>
        ELSE InsertAfter(f[i - 1],
                         Cardinality({k \in 1..(i - 1) : CmpSessions(f[i - 1][k], list[i]) <= 0}),
                         list[i])
  IN f[Len(list)]

\* copy.sort((a, b) => (a.info.time.created ?? 0) - (b.info.time.created ?? 0))
SortMessages(list) ==
  LET f[i \in 0..Len(list)] ==
        IF i = 0 THEN <<>>
        ELSE InsertAfter(f[i - 1],
                         Cardinality({k \in 1..(i - 1) : CmpMessages(f[i - 1][k], list[i]) <= 0}),
                         list[i])
  IN f[Len(list)]

\* nextParts.sort((a, b) => a.id.localeCompare(b.id))
SortParts(list) ==
  LET f[i \in 0..Len(list)] ==
        IF i = 0 THEN <<>>
        ELSE InsertAfter(f[i - 1],
                         Cardinality({k \in 1..(i - 1) : CmpParts(f[i - 1][k], list[i]) <= 0}),
                         list[i])
  IN f[Len(list)]

SortedDesc(list) == \A i \in 1..(Len(list) - 1) : list[i].updated >= list[i + 1].updated
SortedAsc(list) == \A i \in 1..(Len(list) - 1) : list[i].info.created <= list[i + 1].info.created
PartsSorted(parts) == \A i \in 1..(Len(parts) - 1) : PartRank(parts[i].id) < PartRank(parts[i + 1].id)

(***************************************************************************)
(* List helpers of the zustand store (chat-timeline.tsx 245-323).          *)
(***************************************************************************)
ReplaceAt(list, index, x) == [list EXCEPT ![index] = x]

\* the variant that inserts without looking for the id
mergeSessionsAppending(list, next) == SortSessions(Append(list, next))

mergeSessions(list, next) ==
  LET index == IndexOfId(list, next.id)
  IN IF index >= 1
     THEN SortSessions(ReplaceAt(list, index, next))
     ELSE SortSessions(Append(list, next))

removeSession(list, id) == WithoutId(list, id)

\* the variant that leaves the new message where the merge put it
mergeMessageListUnsorted(list, next) ==
  LET index == IndexOfMessage(list, next.info.id)
  IN IF index >= 1 THEN ReplaceAt(list, index, next) ELSE <<next>> \o list

mergeMessageList(list, next) ==
  LET index == IndexOfMessage(list, next.info.id)
  IN IF index >= 1
     THEN SortMessages(ReplaceAt(list, index, next))
     ELSE SortMessages(Append(list, next))

\* the variant that inserts an entry made of the info alone
mergeMessageInfoListUpserting(list, info) ==
  LET index == IndexOfMessage(list, info.id)
  IN IF index >= 1
     THEN ReplaceAt(list, index, [info |-> info, parts |-> list[index].parts])
     ELSE Append(list, [info |-> info, parts |-> <<>>])

mergeMessageInfoList(list, info) ==
  LET index == IndexOfMessage(list, info.id)
  IN IF index >= 1
     THEN ReplaceAt(list, index, [info |-> info, parts |-> list[index].parts])
     ELSE list

\* the variant that merges the fields of the event's part over the stored part
mergeMessagePartListFieldwise(list, part) ==
  LET index == IndexOfMessage(list, part.messageID)
  IN IF index < 1 THEN list
     ELSE LET target == list[index]
              partIndex == IndexOfId(target.parts, part.id)
              nextParts == IF partIndex >= 1
                           THEN ReplaceAt(target.parts, partIndex,
                                          [part EXCEPT !.output =
                                             IF @ = Undefined
                                             THEN target.parts[partIndex].output ELSE @])
                           ELSE SortParts(Append(target.parts, part))
          IN ReplaceAt(list, index, [info |-> target.info, parts |-> nextParts])

mergeMessagePartList(list, part) ==
  LET index == IndexOfMessage(list, part.messageID)
  IN IF index < 1 THEN list
     ELSE LET target == list[index]
              partIndex == IndexOfId(target.parts, part.id)
              nextParts == IF partIndex >= 1
                           THEN ReplaceAt(target.parts, partIndex, part)
                           ELSE SortParts(Append(target.parts, part))
          IN ReplaceAt(list, index, [info |-> target.info, parts |-> nextParts])

removeMessagePartFromList(list, messageID, partID) ==
  LET index == IndexOfMessage(list, messageID)
  IN IF index < 1 THEN list
     ELSE LET target == list[index]
              nextParts == WithoutId(target.parts, partID)
          IN ReplaceAt(list, index, [info |-> target.info, parts |-> nextParts])

removeMessageFromList(list, messageID) == WithoutMessage(list, messageID)

(***************************************************************************)
(* The messages map  { [sessionID]: MessageWithParts[] }  is a function    *)
(* whose domain is the set of keys present.                                *)
(***************************************************************************)
HasKey(map, k) == k \in DOMAIN map
\* map[k] ?? []
GetOr(map, k) == IF k \in DOMAIN map THEN map[k] ELSE <<>>
\* { ...map, [k]: v }
Put(map, k, v) == [x \in (DOMAIN map) \cup {k} |-> IF x = k THEN v ELSE map[x]]
\* const next = { ...map }; delete next[k]
Drop(map, k) == [x \in (DOMAIN map) \ {k} |-> map[x]]
EmptyMap == [x \in {} |-> <<>>]

\* sessions[0]?.id
FirstId(list) == IF Len(list) > 0 THEN list[1].id ELSE Undefined
\* sessions.find((item) => item.id === id)
FindSession(list, id) ==
  LET index == IndexOfId(list, id)
  IN IF index >= 1 THEN Some(list[index]) ELSE None

(***************************************************************************)
(* Events and errors.                                                      *)
(***************************************************************************)
\* a thrown Error of services/opencode-client.ts request(): its message
RequestFailed == "Request failed (500)"

\* error.data.message / error.message of a session.error event: absent (None)
\* or a value that is a string (text) or not (json is its JSON.stringify)
StringValue(text) == Some([isString |-> TRUE, text |-> text, json |-> "quoted"])
OtherValue(json) == Some([isString |-> FALSE, text |-> "object", json |-> json])

\* event.properties.error?.data?.message ?? event.properties.error?.message, then
\* typeof rawMessage === "string" ? rawMessage
\*   : rawMessage != null ? JSON.stringify(rawMessage) : "Session error"
\* a handler that reads error.message before error.data.message
SessionErrorMessageTopFirst(error) ==
  LET rawMessage == IF error.message # None THEN error.message ELSE error.dataMessage
  IN IF rawMessage = None THEN "Session error"
     ELSE IF rawMessage[1].isString THEN rawMessage[1].text
     ELSE rawMessage[1].json

SessionErrorMessage(error) ==
  LET rawMessage == IF error.dataMessage # None THEN error.dataMessage ELSE error.message
  IN IF rawMessage = None THEN "Session error"
     ELSE IF rawMessage[1].isString THEN rawMessage[1].text
     ELSE rawMessage[1].json

\* input.text is a sequence of characters; String.prototype.trim strips white space and line terminators from both ends
WhiteSpace == {" ", "\t", "\n"}
IsSpace(c) == c \in WhiteSpace
RECURSIVE TrimStart(_)
TrimStart(text) ==
  IF text # <<>> /\ IsSpace(Head(text)) THEN TrimStart(Tail(text)) ELSE text
RECURSIVE TrimEnd(_)
TrimEnd(text) ==
  IF text # <<>> /\ IsSpace(text[Len(text)]) THEN TrimEnd(SubSeq(text, 1, Len(text) - 1)) ELSE text
Trim(text) == TrimEnd(TrimStart(text))

(***************************************************************************)
(* The zustand store  useOpencodeStore  (chat-timeline.tsx 325-626).       *)
(* Each operator is the updater a store action hands to set(): it maps the *)
(* store's state st to the next state.                                     *)
(***************************************************************************)
InitialState ==
  [sessions |-> <<>>,
   messages |-> EmptyMap,
   activeSessionID |-> Undefined,
   activeSession |-> None,
   activeMessages |-> <<>>,
   isLoadingSessions |-> FALSE,
   isLoadingMessages |-> FALSE,
   busySessionIDs |-> {},
   lastError |-> Undefined]

selectSession(st, sessionID) ==
  [st EXCEPT !.activeSessionID = sessionID,
             !.activeSession = FindSession(st.sessions, sessionID),
             !.activeMessages = GetOr(st.messages, sessionID)]

\* refreshSessions up to its await
refreshSessionsStart(st) == [st EXCEPT !.isLoadingSessions = TRUE]

\* the variant that keeps the order of the response
refreshSessionsResolvedAsReceived(st, result) ==
  LET sorted == result
      nextActiveID == IF st.activeSessionID # Undefined /\ st.activeSessionID \in Ids(sorted)
                      THEN st.activeSessionID
                      ELSE FirstId(sorted)
  IN [st EXCEPT !.sessions = sorted,
                !.activeSessionID = nextActiveID,
                !.activeSession = IF nextActiveID # Undefined
                                  THEN FindSession(sorted, nextActiveID) ELSE None,
                !.activeMessages = IF nextActiveID # Undefined
                                   THEN GetOr(st.messages, nextActiveID) ELSE <<>>,
                !.isLoadingSessions = FALSE]

\* refreshSessions after its await, the request having succeeded with result
refreshSessionsResolved(st, result) ==
  LET sorted == SortSessions(result)
      nextActiveID == IF st.activeSessionID # Undefined /\ st.activeSessionID \in Ids(sorted)
                      THEN st.activeSessionID
                      ELSE FirstId(sorted)
  IN [st EXCEPT !.sessions = sorted,
                !.activeSessionID = nextActiveID,
                !.activeSession = IF nextActiveID # Undefined
                                  THEN FindSession(sorted, nextActiveID) ELSE None,
                !.activeMessages = IF nextActiveID # Undefined
                                   THEN GetOr(st.messages, nextActiveID) ELSE <<>>,
                !.isLoadingSessions = FALSE]

\* a catch that also empties the session list
refreshSessionsRejectedEmptying(st, error) ==
  [st EXCEPT !.sessions = <<>>, !.isLoadingSessions = FALSE, !.lastError = error]

\* refreshSessions' catch
refreshSessionsRejected(st, error) ==
  [st EXCEPT !.isLoadingSessions = FALSE, !.lastError = error]

loadMessagesStart(st) == [st EXCEPT !.isLoadingMessages = TRUE]

\* a loadMessages without the stale-response guard
loadMessagesActiveUnguarded(st, sessionID, result) == result

\* the activeMessages a resolved loadMessages(sessionID) stores
loadMessagesActive(st, sessionID, result) ==
  IF st.activeSessionID = sessionID THEN result ELSE st.activeMessages

loadMessagesResolved(st, sessionID, result) ==
  [st EXCEPT !.messages = Put(st.messages, sessionID, result),
             !.activeMessages = loadMessagesActive(st, sessionID, result),
             !.isLoadingMessages = FALSE]

\* a catch that records the error and leaves the flag
loadMessagesRejectedStillLoading(st, error) == [st EXCEPT !.lastError = error]

\* loadMessages' catch
loadMessagesRejected(st, error) ==
  [st EXCEPT !.isLoadingMessages = FALSE, !.lastError = error]

\* a createSession that puts the new session first without looking for its id
createSessionResolvedPrepending(st, session) ==
  [st EXCEPT !.sessions = <<session>> \o st.sessions,
             !.activeSessionID = session.id,
             !.activeSession = Some(session),
             !.activeMessages = GetOr(st.messages, session.id)]

\* createSession after its await
createSessionResolved(st, session) ==
  [st EXCEPT !.sessions = mergeSessions(st.sessions, session),
             !.activeSessionID = session.id,
             !.activeSession = Some(session),
             !.activeMessages = GetOr(st.messages, session.id)]

\* a removal that leaves the active session as it was
removeSessionStateKeepingActive(st, sessionID) ==
  [st EXCEPT !.sessions = removeSession(st.sessions, sessionID),
             !.messages = Drop(st.messages, sessionID),
             !.busySessionIDs = st.busySessionIDs \ {sessionID}]

\* the updater shared by deleteSession (after its await) and removeSessionState
removeSessionState(st, sessionID) ==
  LET sessions == removeSession(st.sessions, sessionID)
      messages == Drop(st.messages, sessionID)
      nextActiveID == IF st.activeSessionID = sessionID
                      THEN FirstId(sessions) ELSE st.activeSessionID
  IN [st EXCEPT !.sessions = sessions,
                !.messages = messages,
                !.activeSessionID = nextActiveID,
                !.activeSession = IF nextActiveID # Undefined
                                  THEN FindSession(sessions, nextActiveID) ELSE None,
                !.activeMessages = IF nextActiveID # Undefined
                                   THEN GetOr(messages, nextActiveID) ELSE <<>>,
                !.busySessionIDs = st.busySessionIDs \ {sessionID}]

deleteSessionResolved(st, sessionID) == removeSessionState(st, sessionID)

setBusy(st, sessionID, busy) ==
  IF sessionID = Undefined THEN st
  ELSE [st EXCEPT !.busySessionIDs = IF busy THEN @ \cup {sessionID} ELSE @ \ {sessionID}]

setLastError(st, message) == [st EXCEPT !.lastError = message]

\* an updater that writes messages[sessionID] and forgets the activeMessages view
ActiveAfterForgotten(st, messages, sessionID) == st.activeMessages

\* the activeMessages an updater stores after writing messages[sessionID]
ActiveAfter(st, messages, sessionID) ==
  IF st.activeSessionID = sessionID THEN messages[sessionID] ELSE st.activeMessages

mergeMessageInto(st, sessionID, message) ==
  LET messages == Put(st.messages, sessionID,
                      mergeMessageList(GetOr(st.messages, sessionID), message))
  IN [st EXCEPT !.messages = messages,
                !.activeMessages = ActiveAfter(st, messages, sessionID)]

\* whether prompt gets past  if (!text) return  and sends its request
promptSends(text) == Trim(text) # <<>>

\* prompt up to its await without the return for blank text
promptStartUnguarded(st, sessionID, text) == setBusy(st, sessionID, TRUE)

\* prompt up to its await: nothing for blank text, else setBusy(sessionID, true)
promptStart(st, sessionID, text) ==
  IF promptSends(text) THEN setBusy(st, sessionID, TRUE) ELSE st

\* prompt after its await: the response merged, then finally setBusy(sessionID, false)
promptResolved(st, sessionID, response) ==
  setBusy(mergeMessageInto(st, sessionID, response), sessionID, FALSE)

\* prompt's catch without the finally
promptRejectedStillBusy(st, sessionID, error) == setLastError(st, error)

\* prompt's catch, then finally setBusy(sessionID, false)
promptRejected(st, sessionID, error) ==
  setBusy(setLastError(st, error), sessionID, FALSE)

\* mergeSession leaving activeSession as it was
mergeSessionStaleActive(st, session) ==
  [st EXCEPT !.sessions = mergeSessions(st.sessions, session)]

mergeSession(st, session) ==
  [st EXCEPT !.sessions = mergeSessions(st.sessions, session),
             !.activeSession = IF st.activeSessionID = session.id
                               THEN Some(session) ELSE st.activeSession]

mergeMessage(st, message) == mergeMessageInto(st, message.info.sessionID, message)

updateMessageInfo(st, info) ==
  LET sessionID == info.sessionID
  IN IF ~HasKey(st.messages, sessionID) THEN st
     ELSE LET messages == Put(st.messages, sessionID,
                              mergeMessageInfoList(st.messages[sessionID], info))
          IN [st EXCEPT !.messages = messages,
                        !.activeMessages = ActiveAfter(st, messages, sessionID)]

updateMessagePart(st, part) ==
  LET sessionID == part.sessionID
  IN IF ~HasKey(st.messages, sessionID) THEN st
     ELSE LET messages == Put(st.messages, sessionID,
                              mergeMessagePartList(st.messages[sessionID], part))
          IN [st EXCEPT !.messages = messages,
                        !.activeMessages = ActiveAfter(st, messages, sessionID)]

removeMessagePart(st, sessionID, messageID, partID) ==
  IF ~HasKey(st.messages, sessionID) THEN st
  ELSE LET messages == Put(st.messages, sessionID,
                           removeMessagePartFromList(st.messages[sessionID], messageID, partID))
       IN [st EXCEPT !.messages = messages,
                     !.activeMessages = ActiveAfter(st, messages, sessionID)]

removeMessage(st, sessionID, messageID) ==
  IF ~HasKey(st.messages, sessionID) THEN st
  ELSE LET messages == Put(st.messages, sessionID,
                           removeMessageFromList(st.messages[sessionID], messageID))
       IN [st EXCEPT !.messages = messages,
                     !.activeMessages = ActiveAfter(st, messages, sessionID)]

(***************************************************************************)
(* The event handler of OpencodeProvider (chat-timeline.tsx 643-698): the  *)
(* synchronous fold of one decoded event e into the store's state.         *)
(* server.connected calls refreshSessions, which runs up to its await.     *)
(***************************************************************************)
FoldEvent(st, e) ==
  CASE e.type = "server.connected" -> refreshSessionsStart(st)
    [] e.type = "session.updated" -> mergeSession(st, e.info)
    [] e.type = "session.deleted" -> removeSessionState(st, e.info.id)
    [] e.type = "session.idle" -> setBusy(st, e.sessionID, FALSE)
    [] e.type = "session.error" ->
         setLastError(IF e.sessionID # Undefined THEN setBusy(st, e.sessionID, FALSE) ELSE st,
                      SessionErrorMessage(e.error))
    [] e.type = "message.created" -> mergeMessage(st, [info |-> e.info, parts |-> e.parts])
    [] e.type = "message.updated" -> updateMessageInfo(st, e.info)
    [] e.type = "message.removed" -> removeMessage(st, e.sessionID, e.messageID)
    [] e.type = "message.part.updated" -> updateMessagePart(st, e.part)
    [] e.type = "message.part.removed" -> removeMessagePart(st, e.sessionID, e.messageID, e.partID)
    [] OTHER -> st

(***************************************************************************)
(* State.                                                                  *)
(***************************************************************************)
VARIABLES
  state,     \* the zustand store's state (OpencodeStoreState)
  pending,   \* the store's REST calls awaiting their response: a bag of [kind, sessionID]
  settled,   \* the call whose response the last step handled, with its outcome; else None
  observing, \* whether this behaviour records seen (fixed by the initial state)
  seen,      \* ids of the messages whose message.created event was folded and for
             \* which no message.removed / session removal has been folded since
  ctx,       \* the context provider's useState cells, as one record
  ctxPending,\* the provider's REST calls awaiting their response, each with the
             \* values its closure captured when it was issued
  ctxSettled,\* the provider call (kind and session) whose response the last step
             \* handled, with its outcome; else None
  order,     \* the ordering scenario: events still to deliver and both variants' lists
  prompts,   \* the store's prompt calls awaiting their response, one per slot: the
             \* session and the busySessionIDs read just before the call started
  overlap,   \* how many REST calls of the store may await their response at once in
             \* this behaviour (fixed by the initial state)
  sub,       \* the zustand provider's event subscription: whether the provider is
             \* mounted, the store's config, the event sources opened so far, the
             \* one its effect holds, and the one whose event the last step folded
  ctxSub,    \* the same for the context provider
  file,      \* the file store: known nodes, open tabs, active tab, the requests
             \* awaiting their response, and whether the last operation threw
  modelStore \* the model store: the agent's model and the recent models

storeVars == <<state, pending, settled, observing, seen>>
ctxVars == <<ctx, ctxPending, ctxSettled>>
orderVars == <<order>>
promptVars == <<prompts>>
scenarioVars == <<overlap>>
subVars == <<sub, ctxSub>>
fileVars == <<file>>
modelVars == <<modelStore>>
vars == <<storeVars, ctxVars, orderVars, promptVars, scenarioVars, subVars, fileVars, modelVars>>
outsideStore == <<ctxVars, orderVars, promptVars, scenarioVars, subVars, fileVars, modelVars>>
outsideCtx == <<storeVars, orderVars, promptVars, scenarioVars, subVars, fileVars, modelVars>>
outsideOrder == <<storeVars, ctxVars, promptVars, scenarioVars, subVars, fileVars, modelVars>>

Call(kind, sessionID) == [kind |-> kind, sessionID |-> sessionID]
Await(call) == pending (+) SetToBag({call})
Settle(call) == pending (-) SetToBag({call})
InFlight(call) == BagIn(call, pending)
CanCall == BagCardinality(pending) < overlap
Outcome(call, ok) == Some([call |-> call, ok |-> ok])

(***************************************************************************)
(* What the server may send in the main specification.                     *)
(***************************************************************************)
Msg(id, created, parts) ==
  [info |-> [id |-> id, sessionID |-> MsgOwner(id), created |-> created], parts |-> parts]
ToolPart(id, messageID, status, output) ==
  [id |-> id, messageID |-> messageID, sessionID |-> MsgOwner(messageID), status |-> status,
   output |-> output]
Part(id, messageID, status) == ToolPart(id, messageID, status, Undefined)

\* GET /session/{id}/message: an ordered list without duplicate ids, of messages of M
MessageLists(M) ==
  {<<>>} \cup {<<m>> : m \in M}
    \cup {<<m, n>> : <<m, n>> \in {mn \in M \X M : /\ mn[1].info.id # mn[2].info.id
                                                  /\ mn[1].info.created <= mn[2].info.created}}

\* GET /session: a list without duplicate ids, in any order, of sessions of S
SessionLists(S) ==
  {<<>>} \cup {<<a>> : a \in S}
    \cup {<<a, b>> : <<a, b>> \in {ab \in S \X S : ab[1].id # ab[2].id}}

\* What a specification lets the server send: the payloads of its events and responses.
Universe(sessionInfos, messages, parts, errors, texts) ==
  [sessionInfos |-> sessionInfos,
   sessionLists |-> SessionLists(sessionInfos),
   messageIDs |-> {m.info.id : m \in messages},
   messageInfos |-> {m.info : m \in messages},
   messages |-> [sessionID \in SessionIDs |-> {m \in messages : m.info.sessionID = sessionID}],
   messageLists |-> [sessionID \in SessionIDs |->
                       MessageLists({m \in messages : m.info.sessionID = sessionID})],
   partIDs |-> {p.id : p \in parts},
   parts |-> parts,
   errors |-> errors,
   texts |-> texts]

OneError == {[dataMessage |-> None, message |-> StringValue("boom")]}
TwoTexts == {<<" ">>, <<"h", "i">>}

\* the messages whose creation counts as observed after e is folded
SeenAfter(e) ==
  CASE ~observing -> seen
    [] e.type = "message.created" -> seen \cup {e.info.id}
    [] e.type = "message.removed" -> seen \ {e.messageID}
    [] e.type = "session.deleted" -> {m \in seen : MsgOwner(m) # e.info.id}
    [] OTHER -> seen

(***************************************************************************)
(* Store actions (one per store method; an asynchronous method is one      *)
(* action up to its await and one per outcome of the awaited request).     *)
(***************************************************************************)
SelectSession(sessionID) ==
  /\ state' = selectSession(state, sessionID)
  /\ settled' = None
  /\ UNCHANGED <<pending, observing, seen>>
  /\ UNCHANGED outsideStore

RefreshSessions ==
  /\ CanCall
  /\ state' = refreshSessionsStart(state)
  /\ pending' = Await(Call("refreshSessions", Undefined))
  /\ settled' = None
  /\ UNCHANGED <<observing, seen>>
  /\ UNCHANGED outsideStore

RefreshSessionsOk(result) ==
  /\ InFlight(Call("refreshSessions", Undefined))
  /\ state' = refreshSessionsResolved(state, result)
  /\ pending' = Settle(Call("refreshSessions", Undefined))
  /\ settled' = Outcome(Call("refreshSessions", Undefined), TRUE)
  /\ UNCHANGED <<observing, seen>>
  /\ UNCHANGED outsideStore

RefreshSessionsFail ==
  /\ InFlight(Call("refreshSessions", Undefined))
  /\ state' = refreshSessionsRejected(state, RequestFailed)
  /\ pending' = Settle(Call("refreshSessions", Undefined))
  /\ settled' = Outcome(Call("refreshSessions", Undefined), FALSE)
  /\ UNCHANGED <<observing, seen>>
  /\ UNCHANGED outsideStore

LoadMessages(sessionID) ==
  /\ CanCall
  /\ state' = loadMessagesStart(state)
  /\ pending' = Await(Call("loadMessages", sessionID))
  /\ settled' = None
  /\ UNCHANGED <<observing, seen>>
  /\ UNCHANGED outsideStore

LoadMessagesOk(sessionID, result) ==
  /\ InFlight(Call("loadMessages", sessionID))
  /\ state' = loadMessagesResolved(state, sessionID, result)
  /\ pending' = Settle(Call("loadMessages", sessionID))
  /\ settled' = Outcome(Call("loadMessages", sessionID), TRUE)
  /\ UNCHANGED <<observing, seen>>
  /\ UNCHANGED outsideStore

LoadMessagesFail(sessionID) ==
  /\ InFlight(Call("loadMessages", sessionID))
  /\ state' = loadMessagesRejected(state, RequestFailed)
  /\ pending' = Settle(Call("loadMessages", sessionID))
  /\ settled' = Outcome(Call("loadMessages", sessionID), FALSE)
  /\ UNCHANGED <<observing, seen>>
  /\ UNCHANGED outsideStore

CreateSession ==
  /\ CanCall
  /\ pending' = Await(Call("createSession", Undefined))
  /\ settled' = None
  /\ UNCHANGED <<state, observing, seen>>
  /\ UNCHANGED outsideStore

CreateSessionOk(session) ==
  /\ InFlight(Call("createSession", Undefined))
  /\ state' = createSessionResolved(state, session)
  /\ pending' = Settle(Call("createSession", Undefined))
  /\ settled' = Outcome(Call("createSession", Undefined), TRUE)
  /\ UNCHANGED <<observing, seen>>
  /\ UNCHANGED outsideStore

\* the awaited request throws: createSession has no catch, its promise rejects
CreateSessionFail ==
  /\ InFlight(Call("createSession", Undefined))
  /\ pending' = Settle(Call("createSession", Undefined))
  /\ settled' = Outcome(Call("createSession", Undefined), FALSE)
  /\ UNCHANGED <<state, observing, seen>>
  /\ UNCHANGED outsideStore

DeleteSession(sessionID) ==
  /\ CanCall
  /\ pending' = Await(Call("deleteSession", sessionID))
  /\ settled' = None
  /\ UNCHANGED <<state, observing, seen>>
  /\ UNCHANGED outsideStore

DeleteSessionOk(sessionID) ==
  /\ InFlight(Call("deleteSession", sessionID))
  /\ state' = deleteSessionResolved(state, sessionID)
  /\ pending' = Settle(Call("deleteSession", sessionID))
  /\ settled' = Outcome(Call("deleteSession", sessionID), TRUE)
  /\ seen' = SeenAfter([type |-> "session.deleted", info |-> [id |-> sessionID]])
  /\ UNCHANGED observing
  /\ UNCHANGED outsideStore

\* the awaited request throws: deleteSession has no catch, its promise rejects
DeleteSessionFail(sessionID) ==
  /\ InFlight(Call("deleteSession", sessionID))
  /\ pending' = Settle(Call("deleteSession", sessionID))
  /\ settled' = Outcome(Call("deleteSession", sessionID), FALSE)
  /\ UNCHANGED <<state, observing, seen>>
  /\ UNCHANGED outsideStore

\* prompt up to its await; blank text returns before anything is done
Prompt(sessionID, text) ==
  /\ CanCall
  /\ state' = promptStart(state, sessionID, text)
  /\ pending' = IF promptSends(text) THEN Await(Call("prompt", sessionID)) ELSE pending
  /\ settled' = None
  /\ UNCHANGED <<observing, seen>>
  /\ UNCHANGED outsideStore

PromptOk(sessionID, response) ==
  /\ InFlight(Call("prompt", sessionID))
  /\ state' = promptResolved(state, sessionID, response)
  /\ pending' = Settle(Call("prompt", sessionID))
  /\ settled' = Outcome(Call("prompt", sessionID), TRUE)
  /\ UNCHANGED <<observing, seen>>
  /\ UNCHANGED outsideStore

PromptFail(sessionID) ==
  /\ InFlight(Call("prompt", sessionID))
  /\ state' = promptRejected(state, sessionID, RequestFailed)
  /\ pending' = Settle(Call("prompt", sessionID))
  /\ settled' = Outcome(Call("prompt", sessionID), FALSE)
  /\ UNCHANGED <<observing, seen>>
  /\ UNCHANGED outsideStore

(***************************************************************************)
(* Overlapping prompt calls. Each call is told apart by the slot it holds  *)
(* while it awaits its response; the slot remembers what the call saw.     *)
(***************************************************************************)
PromptSlots == 1..MaxPrompts
PromptsIdle == prompts = [n \in PromptSlots |-> None]
Awaiting(n) == prompts[n] # None
Awaited(n) == prompts[n][1]
PromptsFor(sessionID) == {n \in PromptSlots : Awaiting(n) /\ Awaited(n).sessionID = sessionID}

\* prompt up to its await, taking the first free slot
PromptCall(n, sessionID, text) ==
  /\ ~Awaiting(n)
  /\ \A k \in 1..(n - 1) : Awaiting(k)
  /\ state' = promptStart(state, sessionID, text)
  /\ prompts' = IF promptSends(text)
                THEN [prompts EXCEPT ![n] = Some([sessionID |-> sessionID,
                                                  before |-> state.busySessionIDs])]
                ELSE prompts
  /\ settled' = None
  /\ UNCHANGED <<pending, observing, seen>>
  /\ UNCHANGED <<ctxVars, orderVars, scenarioVars, subVars, fileVars, modelVars>>

PromptCallOk(n, response) ==
  /\ Awaiting(n)
  /\ response.info.sessionID = Awaited(n).sessionID
  /\ state' = promptResolved(state, Awaited(n).sessionID, response)
  /\ prompts' = [prompts EXCEPT ![n] = None]
  /\ settled' = Outcome(Call("prompt", Awaited(n).sessionID), TRUE)
  /\ UNCHANGED <<pending, observing, seen>>
  /\ UNCHANGED <<ctxVars, orderVars, scenarioVars, subVars, fileVars, modelVars>>

PromptCallFail(n) ==
  /\ Awaiting(n)
  /\ state' = promptRejected(state, Awaited(n).sessionID, RequestFailed)
  /\ prompts' = [prompts EXCEPT ![n] = None]
  /\ settled' = Outcome(Call("prompt", Awaited(n).sessionID), FALSE)
  /\ UNCHANGED <<pending, observing, seen>>
  /\ UNCHANGED <<ctxVars, orderVars, scenarioVars, subVars, fileVars, modelVars>>

ClearError ==
  /\ state' = setLastError(state, Undefined)
  /\ settled' = None
  /\ UNCHANGED <<pending, observing, seen>>
  /\ UNCHANGED outsideStore

(***************************************************************************)
(* Event delivery: the subscription's callback folds one event.            *)
(***************************************************************************)
ServerConnected ==
  /\ CanCall
  /\ state' = FoldEvent(state, [type |-> "server.connected"])
  /\ pending' = Await(Call("refreshSessions", Undefined))
  /\ settled' = None
  /\ UNCHANGED <<observing, seen>>
  /\ UNCHANGED outsideStore

SessionUpdated(info) ==
  LET e == [type |-> "session.updated", info |-> info]
  IN /\ state' = FoldEvent(state, e)
     /\ seen' = SeenAfter(e)
     /\ settled' = None
     /\ UNCHANGED <<pending, observing>>
     /\ UNCHANGED outsideStore

SessionDeleted(info) ==
  LET e == [type |-> "session.deleted", info |-> info]
  IN /\ state' = FoldEvent(state, e)
     /\ seen' = SeenAfter(e)
     /\ settled' = None
     /\ UNCHANGED <<pending, observing>>
     /\ UNCHANGED outsideStore

SessionIdle(sessionID) ==
  LET e == [type |-> "session.idle", sessionID |-> sessionID]
  IN /\ state' = FoldEvent(state, e)
     /\ seen' = SeenAfter(e)
     /\ settled' = None
     /\ UNCHANGED <<pending, observing>>
     /\ UNCHANGED outsideStore

SessionError(sessionID, error) ==
  LET e == [type |-> "session.error", sessionID |-> sessionID, error |-> error]
  IN /\ state' = FoldEvent(state, e)
     /\ seen' = SeenAfter(e)
     /\ settled' = None
     /\ UNCHANGED <<pending, observing>>
     /\ UNCHANGED outsideStore

MessageCreated(message) ==
  LET e == [type |-> "message.created", info |-> message.info, parts |-> message.parts]
  IN /\ state' = FoldEvent(state, e)
     /\ seen' = SeenAfter(e)
     /\ settled' = None
     /\ UNCHANGED <<pending, observing>>
     /\ UNCHANGED outsideStore

MessageUpdated(info) ==
  LET e == [type |-> "message.updated", info |-> info]
  IN /\ state' = FoldEvent(state, e)
     /\ seen' = SeenAfter(e)
     /\ settled' = None
     /\ UNCHANGED <<pending, observing>>
     /\ UNCHANGED outsideStore

MessageRemoved(messageID) ==
  LET e == [type |-> "message.removed", sessionID |-> MsgOwner(messageID),
            messageID |-> messageID]
  IN /\ state' = FoldEvent(state, e)
     /\ seen' = SeenAfter(e)
     /\ settled' = None
     /\ UNCHANGED <<pending, observing>>
     /\ UNCHANGED outsideStore

MessagePartUpdated(part) ==
  LET e == [type |-> "message.part.updated", part |-> part]
  IN /\ state' = FoldEvent(state, e)
     /\ seen' = SeenAfter(e)
     /\ settled' = None
     /\ UNCHANGED <<pending, observing>>
     /\ UNCHANGED outsideStore

MessagePartRemoved(messageID, partID) ==
  LET e == [type |-> "message.part.removed", sessionID |-> MsgOwner(messageID),
            messageID |-> messageID, partID |-> partID]
  IN /\ state' = FoldEvent(state, e)
     /\ seen' = SeenAfter(e)
     /\ settled' = None
     /\ UNCHANGED <<pending, observing>>
     /\ UNCHANGED outsideStore

StoreNext(U) ==
  \/ \E sessionID \in SessionIDs : SelectSession(sessionID)
  \/ RefreshSessions
  \/ \E result \in U.sessionLists : RefreshSessionsOk(result)
  \/ RefreshSessionsFail
  \/ \E sessionID \in SessionIDs : LoadMessages(sessionID)
  \/ \E sessionID \in SessionIDs : \E result \in U.messageLists[sessionID] :
       LoadMessagesOk(sessionID, result)
  \/ \E sessionID \in SessionIDs : LoadMessagesFail(sessionID)
  \/ CreateSession
  \/ \E session \in U.sessionInfos : CreateSessionOk(session)
  \/ CreateSessionFail
  \/ \E sessionID \in SessionIDs : DeleteSession(sessionID)
  \/ \E sessionID \in SessionIDs : DeleteSessionOk(sessionID)
  \/ \E sessionID \in SessionIDs : DeleteSessionFail(sessionID)
  \/ \E sessionID \in SessionIDs : \E text \in U.texts : Prompt(sessionID, text)
  \/ \E sessionID \in SessionIDs : \E response \in U.messages[sessionID] :
       PromptOk(sessionID, response)
  \/ \E sessionID \in SessionIDs : PromptFail(sessionID)
  \/ ClearError
  \/ ServerConnected
  \/ \E info \in U.sessionInfos : SessionUpdated(info)
  \/ \E info \in U.sessionInfos : SessionDeleted(info)
  \/ \E sessionID \in SessionIDs : SessionIdle(sessionID)
  \/ \E sessionID \in SessionIDs \cup {Undefined} : \E error \in U.errors :
       SessionError(sessionID, error)
  \/ \E sessionID \in SessionIDs : \E message \in U.messages[sessionID] :
       MessageCreated(message)
  \/ \E info \in U.messageInfos : MessageUpdated(info)
  \/ \E messageID \in U.messageIDs : MessageRemoved(messageID)
  \/ \E part \in U.parts : MessagePartUpdated(part)
  \/ \E messageID \in U.messageIDs : \E partID \in U.partIDs :
       MessagePartRemoved(messageID, partID)

(***************************************************************************)
(* The context provider  OpencodeProvider  (state/opencode-store.tsx).     *)
(* List helpers of lines 49-130.                                           *)
(***************************************************************************)
mergeOrInsert(list, next) ==
  LET index == IndexOfId(list, next.id)
  IN IF index >= 1
     THEN SortSessions(ReplaceAt(list, index, next))
     ELSE SortSessions(Append(list, next))

ctx_removeSession(list, id) == WithoutId(list, id)

ctx_mergeMessage(list, next) ==
  LET index == IndexOfMessage(list, next.info.id)
  IN IF index >= 1
     THEN SortMessages(ReplaceAt(list, index, [info |-> next.info, parts |-> next.parts]))
     ELSE SortMessages(Append(list, next))

mergeMessageInfo(list, info) ==
  LET index == IndexOfMessage(list, info.id)
  IN IF index >= 1
     THEN ReplaceAt(list, index, [info |-> info, parts |-> list[index].parts])
     ELSE list

mergeMessagePart(list, part) ==
  LET index == IndexOfMessage(list, part.messageID)
  IN IF index < 1 THEN list
     ELSE LET target == list[index]
              partIndex == IndexOfId(target.parts, part.id)
              nextParts == IF partIndex >= 1
                           THEN ReplaceAt(target.parts, partIndex, part)
                           ELSE SortParts(Append(target.parts, part))
          IN ReplaceAt(list, index, [info |-> target.info, parts |-> nextParts])

ctx_removeMessagePart(list, messageID, partID) ==
  LET index == IndexOfMessage(list, messageID)
  IN IF index < 1 THEN list
     ELSE LET target == list[index]
              nextParts == WithoutId(target.parts, partID)
          IN ReplaceAt(list, index, [info |-> target.info, parts |-> nextParts])

ctx_removeMessage(list, messageID) == WithoutMessage(list, messageID)

(***************************************************************************)
(* The provider's state cells (useState, lines 133-139) and the updates    *)
(* its callbacks queue.  c is the record of the cells.                     *)
(***************************************************************************)
CtxInitialState ==
  [sessions |-> <<>>,
   activeSessionID |-> Undefined,
   messages |-> EmptyMap,
   isLoadingSessions |-> FALSE,
   isLoadingMessages |-> FALSE,
   busySessionIDs |-> {}]

\* useMemo: !activeSessionID ? [] : messages[activeSessionID] ?? []
ctx_activeMessages(c) ==
  IF c.activeSessionID = Undefined THEN <<>> ELSE GetOr(c.messages, c.activeSessionID)

\* useMemo: sessions.find((session) => session.id === activeSessionID)
ctx_activeSession(c) == FindSession(c.sessions, c.activeSessionID)

ctx_selectSession(c, sessionID) == [c EXCEPT !.activeSessionID = sessionID]

ctx_refreshSessionsStart(c) == [c EXCEPT !.isLoadingSessions = TRUE]

\* activeSessionID is the value the callback's closure captured
ctx_refreshSessionsResolved(c, activeSessionID, result) ==
  LET sorted == SortSessions(result)
  IN [c EXCEPT !.sessions = sorted,
               !.activeSessionID = IF activeSessionID = Undefined /\ Len(sorted) > 0
                                   THEN sorted[1].id ELSE @,
               !.isLoadingSessions = FALSE]

ctx_refreshSessionsRejected(c) == [c EXCEPT !.isLoadingSessions = FALSE]

\* the variant that files the response under whatever session is active now
ctx_loadMessagesResolvedUnderActive(c, activeSessionID, result) ==
  [c EXCEPT !.messages = Put(@, c.activeSessionID, result), !.isLoadingMessages = FALSE]

\* activeSessionID is the value the effect's closure captured
ctx_loadMessagesResolved(c, activeSessionID, result) ==
  [c EXCEPT !.messages = Put(@, activeSessionID, result), !.isLoadingMessages = FALSE]

ctx_loadMessagesRejected(c) == [c EXCEPT !.isLoadingMessages = FALSE]

createSessionAction(c, result) ==
  [c EXCEPT !.sessions = mergeOrInsert(@, result), !.activeSessionID = result.id]

\* sessions is the list the callback's closure captured
deleteSessionAction(c, sessionID, sessions) ==
  LET remaining == ctx_removeSession(sessions, sessionID)
  IN [c EXCEPT !.sessions = ctx_removeSession(@, sessionID),
               !.messages = Drop(@, sessionID),
               !.activeSessionID = IF @ # sessionID THEN @ ELSE FirstId(remaining)]

ctx_promptStart(c, sessionID) == [c EXCEPT !.busySessionIDs = @ \cup {sessionID}]

ctx_promptResolved(c, sessionID, response) ==
  [c EXCEPT !.messages = Put(@, sessionID, ctx_mergeMessage(GetOr(@, sessionID), response)),
            !.busySessionIDs = @ \ {sessionID}]

ctx_promptRejected(c, sessionID) == [c EXCEPT !.busySessionIDs = @ \ {sessionID}]

\* handleEvent (lines 180-258); server.connected also issues a request, see
\* CtxServerConnected.  An event type without a branch changes nothing.
handleEvent(c, e) ==
  CASE e.type = "server.connected" -> ctx_refreshSessionsStart(c)
    [] e.type = "session.updated" -> [c EXCEPT !.sessions = mergeOrInsert(@, e.info)]
    [] e.type = "session.deleted" ->
         LET remaining == ctx_removeSession(c.sessions, e.info.id)
         IN [c EXCEPT !.sessions = ctx_removeSession(@, e.info.id),
                      !.messages = Drop(@, e.info.id),
                      !.activeSessionID = IF @ = e.info.id THEN FirstId(remaining) ELSE @]
    [] e.type = "session.idle" -> [c EXCEPT !.busySessionIDs = @ \ {e.sessionID}]
    [] e.type = "session.error" ->
         IF e.sessionID = Undefined THEN c
         ELSE [c EXCEPT !.busySessionIDs = @ \ {e.sessionID}]
    [] e.type = "message.updated" ->
         [c EXCEPT !.messages =
            Put(@, e.info.sessionID, mergeMessageInfo(GetOr(@, e.info.sessionID), e.info))]
    [] e.type = "message.removed" ->
         [c EXCEPT !.messages =
            Put(@, e.sessionID, ctx_removeMessage(GetOr(@, e.sessionID), e.messageID))]
    [] e.type = "message.part.updated" ->
         [c EXCEPT !.messages =
            Put(@, e.part.sessionID, mergeMessagePart(GetOr(@, e.part.sessionID), e.part))]
    [] e.type = "message.part.removed" ->
         [c EXCEPT !.messages =
            Put(@, e.sessionID,
                ctx_removeMessagePart(GetOr(@, e.sessionID), e.messageID, e.partID))]
    [] OTHER -> c

\* a provider call awaiting its response, with what its closure captured
CtxCall(kind, sessionID, activeSessionID, sessions) ==
  [kind |-> kind, sessionID |-> sessionID, activeSessionID |-> activeSessionID,
   sessions |-> sessions]
CtxRefreshCall(activeSessionID) == CtxCall("fetchSessions", Undefined, activeSessionID, <<>>)
CtxLoadCall(activeSessionID) == CtxCall("fetchMessages", activeSessionID, activeSessionID, <<>>)
CtxCreateCall == CtxCall("createSession", Undefined, Undefined, <<>>)
CtxDeleteCall(sessionID, sessions) == CtxCall("deleteSession", sessionID, Undefined, sessions)
CtxPromptCall(sessionID) == CtxCall("sendPrompt", sessionID, Undefined, <<>>)
CtxInFlight(call) == BagIn(call, ctxPending)
CtxSettle(call) == ctxPending (-) SetToBag({call})
CtxCanCall == BagCardinality(ctxPending) < MaxCtxCalls

\* The render that commits cells c, then its effects (lines 158-178), p being the
\* calls in flight.  A new activeSessionID gives refreshSessions a new identity, so
\* the refresh effect runs again, and the load effect fetches the messages of the
\* new active session.
CtxRender(activeSessionID, c, p) ==
  IF c.activeSessionID = activeSessionID
  THEN [ctx |-> c, pending |-> p]
  ELSE LET refreshed == ctx_refreshSessionsStart(c)
           p1 == p (+) SetToBag({CtxRefreshCall(c.activeSessionID)})
       IN IF c.activeSessionID = Undefined
          THEN [ctx |-> refreshed, pending |-> p1]
          ELSE [ctx |-> [refreshed EXCEPT !.isLoadingMessages = TRUE],
                pending |-> p1 (+) SetToBag({CtxLoadCall(c.activeSessionID)})]
CtxFits(r) == BagCardinality(r.pending) <= MaxCtxInflight

\* the provider after its first render: the refresh effect has issued its request
CtxMounted == CtxRender("unmounted", CtxInitialState, EmptyBag)

(***************************************************************************)
(* Provider actions: a callback or a response handler, then the render it  *)
(* causes and that render's effects.                                       *)
(***************************************************************************)
CtxSelectSession(sessionID) ==
  LET r == CtxRender(ctx.activeSessionID, ctx_selectSession(ctx, sessionID), ctxPending)
  IN /\ CtxFits(r)
     /\ ctx' = r.ctx
     /\ ctxPending' = r.pending
     /\ ctxSettled' = None
     /\ UNCHANGED outsideCtx

\* refreshSessions called from the view, up to its await
CtxRefreshSessions ==
  /\ CtxCanCall
  /\ ctx' = ctx_refreshSessionsStart(ctx)
  /\ ctxPending' = ctxPending (+) SetToBag({CtxRefreshCall(ctx.activeSessionID)})
  /\ ctxSettled' = None
  /\ UNCHANGED outsideCtx

CtxRefreshSessionsOk(activeSessionID, result) ==
  LET call == CtxRefreshCall(activeSessionID)
      r == CtxRender(ctx.activeSessionID,
                     ctx_refreshSessionsResolved(ctx, activeSessionID, result),
                     CtxSettle(call))
  IN /\ CtxInFlight(call)
     /\ CtxFits(r)
     /\ ctx' = r.ctx
     /\ ctxPending' = r.pending
     /\ ctxSettled' = Outcome(Call(call.kind, call.sessionID), TRUE)
     /\ UNCHANGED outsideCtx

CtxRefreshSessionsFail(activeSessionID) ==
  LET call == CtxRefreshCall(activeSessionID)
  IN /\ CtxInFlight(call)
     /\ ctx' = ctx_refreshSessionsRejected(ctx)
     /\ ctxPending' = CtxSettle(call)
     /\ ctxSettled' = Outcome(Call(call.kind, call.sessionID), FALSE)
     /\ UNCHANGED outsideCtx

\* the response of the request the load effect issued when sessionID became active
CtxLoadMessagesOk(sessionID, result) ==
  LET call == CtxLoadCall(sessionID)
  IN /\ CtxInFlight(call)
     /\ ctx' = ctx_loadMessagesResolved(ctx, call.activeSessionID, result)
     /\ ctxPending' = CtxSettle(call)
     /\ ctxSettled' = Outcome(Call(call.kind, call.sessionID), TRUE)
     /\ UNCHANGED outsideCtx

CtxLoadMessagesFail(sessionID) ==
  LET call == CtxLoadCall(sessionID)
  IN /\ CtxInFlight(call)
     /\ ctx' = ctx_loadMessagesRejected(ctx)
     /\ ctxPending' = CtxSettle(call)
     /\ ctxSettled' = Outcome(Call(call.kind, call.sessionID), FALSE)
     /\ UNCHANGED outsideCtx

CtxCreateSession ==
  /\ CtxCanCall
  /\ ctxPending' = ctxPending (+) SetToBag({CtxCreateCall})
  /\ ctxSettled' = None
  /\ UNCHANGED <<ctx, outsideCtx>>

CtxCreateSessionOk(result) ==
  LET call == CtxCreateCall
      r == CtxRender(ctx.activeSessionID, createSessionAction(ctx, result), CtxSettle(call))
  IN /\ CtxInFlight(call)
     /\ CtxFits(r)
     /\ ctx' = r.ctx
     /\ ctxPending' = r.pending
     /\ ctxSettled' = Outcome(Call(call.kind, call.sessionID), TRUE)
     /\ UNCHANGED outsideCtx

\* the awaited request throws: createSessionAction has no catch, its promise rejects
CtxCreateSessionFail ==
  LET call == CtxCreateCall
  IN /\ CtxInFlight(call)
     /\ ctxPending' = CtxSettle(call)
     /\ ctxSettled' = Outcome(Call(call.kind, call.sessionID), FALSE)
     /\ UNCHANGED <<ctx, outsideCtx>>

CtxDeleteSession(sessionID) ==
  /\ CtxCanCall
  /\ ctxPending' = ctxPending (+) SetToBag({CtxDeleteCall(sessionID, ctx.sessions)})
  /\ ctxSettled' = None
  /\ UNCHANGED <<ctx, outsideCtx>>

\* sessions is the list deleteSessionAction's closure captured
CtxDeleteSessionOk(sessionID, sessions) ==
  LET call == CtxDeleteCall(sessionID, sessions)
      r == CtxRender(ctx.activeSessionID,
                     deleteSessionAction(ctx, sessionID, sessions),
                     CtxSettle(call))
  IN /\ CtxInFlight(call)
     /\ CtxFits(r)
     /\ ctx' = r.ctx
     /\ ctxPending' = r.pending
     /\ ctxSettled' = Outcome(Call(call.kind, call.sessionID), TRUE)
     /\ UNCHANGED outsideCtx

\* the awaited request throws: deleteSessionAction has no catch, its promise rejects
CtxDeleteSessionFail(sessionID, sessions) ==
  LET call == CtxDeleteCall(sessionID, sessions)
  IN /\ CtxInFlight(call)
     /\ ctxPending' = CtxSettle(call)
     /\ ctxSettled' = Outcome(Call(call.kind, call.sessionID), FALSE)
     /\ UNCHANGED <<ctx, outsideCtx>>

\* prompt up to its await; blank text returns before anything is done
CtxPrompt(sessionID, text) ==
  /\ CtxCanCall
  /\ IF Trim(text) = <<>>
     THEN UNCHANGED <<ctx, ctxPending>>
     ELSE /\ ctx' = ctx_promptStart(ctx, sessionID)
          /\ ctxPending' = ctxPending (+) SetToBag({CtxPromptCall(sessionID)})
  /\ ctxSettled' = None
  /\ UNCHANGED outsideCtx

CtxPromptOk(sessionID, response) ==
  LET call == CtxPromptCall(sessionID)
  IN /\ CtxInFlight(call)
     /\ ctx' = ctx_promptResolved(ctx, sessionID, response)
     /\ ctxPending' = CtxSettle(call)
     /\ ctxSettled' = Outcome(Call(call.kind, call.sessionID), TRUE)
     /\ UNCHANGED outsideCtx

CtxPromptFail(sessionID) ==
  LET call == CtxPromptCall(sessionID)
  IN /\ CtxInFlight(call)
     /\ ctx' = ctx_promptRejected(ctx, sessionID)
     /\ ctxPending' = CtxSettle(call)
     /\ ctxSettled' = Outcome(Call(call.kind, call.sessionID), FALSE)
     /\ UNCHANGED outsideCtx

CtxServerConnected ==
  /\ CtxCanCall
  /\ ctx' = handleEvent(ctx, [type |-> "server.connected"])
  /\ ctxPending' = ctxPending (+) SetToBag({CtxRefreshCall(ctx.activeSessionID)})
  /\ ctxSettled' = None
  /\ UNCHANGED outsideCtx

CtxSessionUpdated(info) ==
  /\ ctx' = handleEvent(ctx, [type |-> "session.updated", info |-> info])
  /\ ctxSettled' = None
  /\ UNCHANGED <<ctxPending, outsideCtx>>

CtxSessionDeleted(info) ==
  LET r == CtxRender(ctx.activeSessionID,
                     handleEvent(ctx, [type |-> "session.deleted", info |-> info]),
                     ctxPending)
  IN /\ CtxFits(r)
     /\ ctx' = r.ctx
     /\ ctxPending' = r.pending
     /\ ctxSettled' = None
     /\ UNCHANGED outsideCtx

CtxSessionIdle(sessionID) ==
  /\ ctx' = handleEvent(ctx, [type |-> "session.idle", sessionID |-> sessionID])
  /\ ctxSettled' = None
  /\ UNCHANGED <<ctxPending, outsideCtx>>

CtxSessionError(sessionID, error) ==
  /\ ctx' = handleEvent(ctx, [type |-> "session.error", sessionID |-> sessionID,
                              error |-> error])
  /\ ctxSettled' = None
  /\ UNCHANGED <<ctxPending, outsideCtx>>

\* handleEvent has no branch for message.created
CtxMessageCreated(message) ==
  /\ ctx' = handleEvent(ctx, [type |-> "message.created", info |-> message.info,
                              parts |-> message.parts])
  /\ ctxSettled' = None
  /\ UNCHANGED <<ctxPending, outsideCtx>>

CtxMessageUpdated(info) ==
  /\ ctx' = handleEvent(ctx, [type |-> "message.updated", info |-> info])
  /\ ctxSettled' = None
  /\ UNCHANGED <<ctxPending, outsideCtx>>

CtxMessageRemoved(messageID) ==
  /\ ctx' = handleEvent(ctx, [type |-> "message.removed", sessionID |-> MsgOwner(messageID),
                              messageID |-> messageID])
  /\ ctxSettled' = None
  /\ UNCHANGED <<ctxPending, outsideCtx>>

CtxMessagePartUpdated(part) ==
  /\ ctx' = handleEvent(ctx, [type |-> "message.part.updated", part |-> part])
  /\ ctxSettled' = None
  /\ UNCHANGED <<ctxPending, outsideCtx>>

CtxMessagePartRemoved(messageID, partID) ==
  /\ ctx' = handleEvent(ctx, [type |-> "message.part.removed",
                              sessionID |-> MsgOwner(messageID),
                              messageID |-> messageID, partID |-> partID])
  /\ ctxSettled' = None
  /\ UNCHANGED <<ctxPending, outsideCtx>>

CtxNext(U) ==
  \/ \E sessionID \in SessionIDs : CtxSelectSession(sessionID)
  \/ CtxRefreshSessions
  \/ \E activeSessionID \in SessionIDs \cup {Undefined} : \E result \in U.sessionLists :
       CtxRefreshSessionsOk(activeSessionID, result)
  \/ \E activeSessionID \in SessionIDs \cup {Undefined} :
       CtxRefreshSessionsFail(activeSessionID)
  \/ \E sessionID \in SessionIDs : \E result \in U.messageLists[sessionID] :
       CtxLoadMessagesOk(sessionID, result)
  \/ \E sessionID \in SessionIDs : CtxLoadMessagesFail(sessionID)
  \/ CtxCreateSession
  \/ \E result \in U.sessionInfos : CtxCreateSessionOk(result)
  \/ CtxCreateSessionFail
  \/ \E sessionID \in SessionIDs : CtxDeleteSession(sessionID)
  \/ \E sessionID \in SessionIDs : \E sessions \in U.sessionLists :
       CtxDeleteSessionOk(sessionID, sessions)
  \/ \E sessionID \in SessionIDs : \E sessions \in U.sessionLists :
       CtxDeleteSessionFail(sessionID, sessions)
  \/ \E sessionID \in SessionIDs : \E text \in U.texts : CtxPrompt(sessionID, text)
  \/ \E sessionID \in SessionIDs : \E response \in U.messages[sessionID] :
       CtxPromptOk(sessionID, response)
  \/ \E sessionID \in SessionIDs : CtxPromptFail(sessionID)
  \/ CtxServerConnected
  \/ \E info \in U.sessionInfos : CtxSessionUpdated(info)
  \/ \E info \in U.sessionInfos : CtxSessionDeleted(info)
  \/ \E sessionID \in SessionIDs : CtxSessionIdle(sessionID)
  \/ \E sessionID \in SessionIDs \cup {Undefined} : \E error \in U.errors :
       CtxSessionError(sessionID, error)
  \/ \E sessionID \in SessionIDs : \E message \in U.messages[sessionID] :
       CtxMessageCreated(message)
  \/ \E info \in U.messageInfos : CtxMessageUpdated(info)
  \/ \E messageID \in U.messageIDs : CtxMessageRemoved(messageID)
  \/ \E part \in U.parts : CtxMessagePartUpdated(part)
  \/ \E messageID \in U.messageIDs : \E partID \in U.partIDs :
       CtxMessagePartRemoved(messageID, partID)

(***************************************************************************)
(* The ordering scenario: the message.created events of one session, each  *)
(* stamped with its own time.created, reach the client in any order; both  *)
(* variants' list merges fold them from the empty list.                    *)
(***************************************************************************)
OrderMessageIDs == {m \in MessageIDs : MsgOwner(m) = "s1"}
OrderMessages == {Msg(id, t, <<>>) : <<id, t>> \in OrderMessageIDs \X (1..MaxOrdTime)}
OrderInputs ==
  {S \in SUBSET OrderMessages :
     \A m, n \in S : m # n => m.info.id # n.info.id /\ m.info.created # n.info.created}

OrderStart(S) == [todo |-> S, delivered |-> <<>>, list |-> <<>>, ctxList |-> <<>>]
OrderIdle == order = OrderStart({})
OrderInit == order \in {OrderStart(S) : S \in OrderInputs}

OrderCreated(message) ==
  /\ message \in order.todo
  /\ order' = [todo |-> order.todo \ {message},
               delivered |-> Append(order.delivered, message),
               list |-> mergeMessageList(order.list, message),
               ctxList |-> ctx_mergeMessage(order.ctxList, message)]
  /\ UNCHANGED outsideOrder

OrderNext == \E message \in OrderMessages : OrderCreated(message)

(***************************************************************************)
(* The event subscription (services/opencode-client.ts 103-121) and the    *)
(* effects that open and close it.  An EventSource dispatches a message    *)
(* only while it is not closed.                                            *)
(***************************************************************************)
BaseUrls == {"u1", "u2"}
Directories == {Undefined, "d1"}
Config == [baseUrl : BaseUrls, directory : Directories]
\* Partial<OpencodeConfig>: a key that is absent keeps the stored value
Absent == "absent"
ConfigInput == [baseUrl : BaseUrls \cup {Absent}, directory : Directories \cup {Absent}]
\* { ...config, ...input }
SpreadConfig(config, input) ==
  [baseUrl |-> IF input.baseUrl = Absent THEN config.baseUrl ELSE input.baseUrl,
   directory |-> IF input.directory = Absent THEN config.directory ELSE input.directory]

\* readConfig() with nothing stored
DefaultConfig == [baseUrl |-> "u1", directory |-> Undefined]
NoSubscription == [mounted |-> FALSE, config |-> DefaultConfig, sources |-> <<>>,
                   current |-> 0, from |-> 0]
Unmounted == sub = NoSubscription /\ ctxSub = NoSubscription

\* subscribeEvents(onEvent, config): a new EventSource, held as the current one
subscribeEvents(s) ==
  [s EXCEPT !.sources = Append(@, [config |-> s.config, open |-> TRUE]),
            !.current = Len(s.sources) + 1]

\* subscription.close() on the source numbered n (nothing when there is none)
closeSource(s, n) ==
  IF n = 0 THEN s ELSE [s EXCEPT !.sources[n].open = FALSE]

\* an effect that returns no cleanup
cleanupNothing(s) == s

\* the effects' cleanup: subscription.close() / eventSubscription.current?.close()
cleanup(s) == closeSource(s, s.current)

\* the zustand provider's effect body (chat-timeline.tsx 643-693)
subscriptionEffect(s) == subscribeEvents(s)

\* the context provider's effect body (opencode-store.tsx 260-262)
ctxSubscriptionEffect(s) == subscribeEvents(closeSource(s, s.current))

CanSubscribe(s) == Len(s.sources) < MaxSources
\* an application is wrapped in one of the two providers: a behaviour uses one
Unused(s) == s = NoSubscription
Folded(s, n) == [s EXCEPT !.from = n]

\* the provider mounts: its subscription effect runs
Mount ==
  /\ Unused(ctxSub)
  /\ ~sub.mounted
  /\ CanSubscribe(sub)
  /\ sub' = Folded(subscriptionEffect([sub EXCEPT !.mounted = TRUE]), 0)
  /\ UNCHANGED <<storeVars, ctxVars, orderVars, promptVars, scenarioVars, fileVars, modelVars, ctxSub>>

\* updateConfig (chat-timeline.tsx 337-348), then the render: the effect's
\* dependencies are config.baseUrl and config.directory
UpdateConfig(input) ==
  LET config == SpreadConfig(sub.config, input)
      stored == [sub EXCEPT !.config = config]
  IN /\ Unused(ctxSub)
     /\ IF sub.mounted /\ config # sub.config
        THEN /\ CanSubscribe(sub)
             /\ sub' = Folded(subscriptionEffect(cleanup(stored)), 0)
        ELSE sub' = Folded(stored, 0)
     /\ UNCHANGED <<storeVars, ctxVars, orderVars, promptVars, scenarioVars, fileVars, modelVars, ctxSub>>

\* the provider unmounts: the effect's cleanup runs
Unmount ==
  /\ sub.mounted
  /\ sub' = Folded(cleanup([sub EXCEPT !.mounted = FALSE]), 0)
  /\ UNCHANGED <<storeVars, ctxVars, orderVars, promptVars, scenarioVars, fileVars, modelVars, ctxSub>>

\* source n dispatches a message: the callback folds the event into the store
EventReceived(n, info) ==
  LET e == [type |-> "session.updated", info |-> info]
  IN /\ n <= Len(sub.sources)
     /\ sub.sources[n].open
     /\ state' = FoldEvent(state, e)
     /\ seen' = SeenAfter(e)
     /\ settled' = None
     /\ sub' = Folded(sub, n)
     /\ UNCHANGED <<pending, observing>>
     /\ UNCHANGED <<ctxVars, orderVars, promptVars, scenarioVars, fileVars, modelVars, ctxSub>>

CtxMount ==
  /\ Unused(sub)
  /\ ~ctxSub.mounted
  /\ CanSubscribe(ctxSub)
  /\ ctxSub' = Folded(ctxSubscriptionEffect([ctxSub EXCEPT !.mounted = TRUE]), 0)
  /\ UNCHANGED <<storeVars, ctxVars, orderVars, promptVars, scenarioVars, fileVars, modelVars, sub>>

\* updateConfig (opencode-store.tsx 331-337): setConfig stores a new object, so
\* the effect, which depends on config and handleEvent, runs again when mounted
CtxUpdateConfig(input) ==
  LET stored == [ctxSub EXCEPT !.config = SpreadConfig(ctxSub.config, input)]
  IN /\ Unused(sub)
     /\ IF ctxSub.mounted
        THEN /\ CanSubscribe(ctxSub)
             /\ ctxSub' = Folded(ctxSubscriptionEffect(cleanup(stored)), 0)
        ELSE ctxSub' = Folded(stored, 0)
     /\ UNCHANGED <<storeVars, ctxVars, orderVars, promptVars, scenarioVars, fileVars, modelVars, sub>>

CtxUnmount ==
  /\ ctxSub.mounted
  /\ ctxSub' = Folded(cleanup([ctxSub EXCEPT !.mounted = FALSE]), 0)
  /\ UNCHANGED <<storeVars, ctxVars, orderVars, promptVars, scenarioVars, fileVars, modelVars, sub>>

\* source n dispatches a message: handleEvent folds the event; when the session
\* list changes, handleEvent is a new callback and the effect runs again
CtxEventReceived(n, info) ==
  LET e == [type |-> "session.updated", info |-> info]
      c == handleEvent(ctx, e)
  IN /\ n <= Len(ctxSub.sources)
     /\ ctxSub.sources[n].open
     /\ ctx' = c
     /\ ctxSettled' = None
     /\ IF c.sessions # ctx.sessions
        THEN /\ CanSubscribe(ctxSub)
             /\ ctxSub' = Folded(ctxSubscriptionEffect(cleanup(ctxSub)), n)
        ELSE ctxSub' = Folded(ctxSub, n)
     /\ UNCHANGED ctxPending
     /\ UNCHANGED <<storeVars, orderVars, promptVars, scenarioVars, fileVars, modelVars, sub>>

SubscriptionNext ==
  \/ Mount
  \/ \E input \in ConfigInput : UpdateConfig(input)
  \/ Unmount
  \/ \E n \in 1..MaxSources : \E info \in {i \in SessionInfo : i.id = "s1"} :
       EventReceived(n, info)
  \/ CtxMount
  \/ \E input \in ConfigInput : CtxUpdateConfig(input)
  \/ CtxUnmount
  \/ \E n \in 1..MaxSources : \E info \in {i \in SessionInfo : i.id = "s1"} :
       CtxEventReceived(n, info)

(***************************************************************************)
(* The file store of context/local.tsx (lines 112-310): the known nodes,   *)
(* the open tabs and the active tab.                                       *)
(***************************************************************************)
\* a and b are top-level files, d/c is a file of directory d
Paths == {"a", "b", "d/c"}
\* relativePath.split("/").slice(0, -1).join("/"): empty for a top-level path
Parent(path) == IF path = "d/c" THEN "d" ELSE IF path = "dd/c" THEN "dd" ELSE ""
\* the files of the project: the tabs are taken from Paths, dd/c is never opened
Files == Paths \cup {"dd/c"}
\* the files whose status changes
ChangedFiles == {"a", "d/c", "dd/c"}
\* sdk.file.list({ query: { path: parent + "/" } }): the files of the directory
Listing(parent) == {path \in Files : Parent(path) = parent}

\* a node as sync.data.node and list give it: neither pinned nor loaded
FreshNode == Some([pinned |-> FALSE, loaded |-> FALSE])
Known(f, path) == f.node[path] # None

\* the top-level directories: d holds d/c, dd holds dd/c
Dirs == {"d", "dd"}

\* createStore's initial value: the top-level nodes, no tab; tree holds the
\* expanded and loaded fields of the directory nodes, log the expand and
\* collapse calls made on each and fetched how many listings each call issued;
\* changes is sync.data.changes as the effect saw it last, status the paths
\* whose node carries a status, updates how often changes took a new value;
\* timers counts the running refresh timers and fired the refreshes they made
InitialFiles ==
  [node |-> [path \in Files |-> IF Parent(path) = "" THEN FreshNode ELSE None],
   opened |-> <<>>,
   active |-> Undefined,
   calls |-> {},
   threw |-> FALSE,
   tree |-> [dir \in Dirs |-> [expanded |-> FALSE, loaded |-> FALSE]],
   log |-> [dir \in Dirs |-> <<>>],
   fetched |-> [dir \in Dirs |-> 0],
   changes |-> {},
   status |-> {},
   updates |-> 0,
   timers |-> 0,
   fired |-> 0]

RECURSIVE WithoutPath(_, _)
\* opened.filter((x) => x !== path)
WithoutPath(list, path) ==
  IF list = <<>> THEN <<>>
  ELSE IF Head(list) = path THEN WithoutPath(Tail(list), path)
  ELSE <<Head(list)>> \o WithoutPath(Tail(list), path)

\* list.findIndex((f) => f === path), counted from 0: -1 if there is none
FindIndexOfPath(list, path) ==
  LET found == {i \in 1..Len(list) : list[i] = path}
  IN IF found = {} THEN -1 ELSE (CHOOSE i \in found : \A j \in found : i <= j) - 1

\* list[index], index counted from 0: undefined outside the list
ElementAt(list, index) ==
  IF index >= 0 /\ index < Len(list) THEN list[index + 1] ELSE Undefined

RECURSIVE PinnedOf(_, _)
\* opened().filter((x) => x.pinned).map((x) => x.path), every tab's node being known
PinnedOf(f, list) ==
  IF list = <<>> THEN <<>>
  ELSE IF f.node[Head(list)][1].pinned THEN <<Head(list)>> \o PinnedOf(f, Tail(list))
  ELSE PinnedOf(f, Tail(list))

\* setStore("node", path, undefined!)
resetNode(f, path) == [f EXCEPT !.node[path] = None, !.status = @ \ {path}]

\* the operation ends by throwing (an async one: its promise rejects)
Throws(f) == [f EXCEPT !.threw = TRUE]

\* close(path) without the write of active
closeKeepingActive(f, path) ==
  resetNode([f EXCEPT !.opened = WithoutPath(@, path)], path)

\* close(path) (lines 261-269); store.opened is read after the filter was stored
close(f, path) ==
  LET filtered == [f EXCEPT !.opened = WithoutPath(@, path)]
      index == FindIndexOfPath(filtered.opened, path)
      previous == ElementAt(filtered.opened, IF index - 1 > 0 THEN index - 1 ELSE 0)
  IN resetNode(IF filtered.active = path THEN [filtered EXCEPT !.active = previous]
               ELSE filtered,
               path)

\* list(parent)'s then: the listed nodes that are not known yet are added
listed(f, parent) ==
  [f EXCEPT !.node = [path \in Files |->
                        IF path \in Listing(parent) /\ ~Known(f, path) THEN FreshNode
                        ELSE f.node[path]]]

\* a call awaiting its response
FileCall(kind, path, pinned) == [kind |-> kind, path |-> path, pinned |-> pinned]

\* open(path, { pinned }) from setStore("opened", ...) on (lines 196-209): reading
\* a field of a node that is not known throws a TypeError
openRest(f, path, pinned) ==
  LET inList == \E i \in 1..Len(f.opened) : f.opened[i] = path
  IN IF ~inList /\ \E i \in 1..Len(f.opened) : ~Known(f, f.opened[i])
     THEN Throws(f)
     ELSE LET activated ==
                [f EXCEPT !.opened = IF inList THEN @ ELSE PinnedOf(f, @) \o <<path>>,
                          !.active = path]
          IN IF ~Known(f, path) THEN Throws(activated)
             ELSE LET marked == IF pinned
                                THEN [activated EXCEPT !.node[path][1].pinned = TRUE]
                                ELSE activated
                  IN IF marked.node[path][1].loaded THEN marked
                     ELSE [marked EXCEPT !.calls = @ \cup {FileCall("read", path, FALSE)}]

\* open(path, { pinned }) up to its first await, or to its end
open(f, path, pinned) ==
  IF ~Known(f, path) /\ Parent(path) # ""
  THEN [f EXCEPT !.calls = @ \cup {FileCall("list", path, pinned)}]
  ELSE openRest(f, path, pinned)

\* load(path)'s then: produce writes loaded and content into the node
loaded(f, path) ==
  IF path \in Files /\ Known(f, path) THEN [f EXCEPT !.node[path][1].loaded = TRUE] ELSE f

\* opened.splice(to, 0, opened.splice(index, 1)[0]), index counted from 0
Spliced(list, index, to) ==
  LET rest == SubSeq(list, 1, index) \o SubSeq(list, index + 2, Len(list))
      at == IF to > Len(rest) THEN Len(rest) ELSE to
  IN SubSeq(rest, 1, at) \o <<list[index + 1]>> \o SubSeq(rest, at + 1, Len(rest))

\* move(path, to) (lines 285-295)
move(f, path, to) ==
  LET index == FindIndexOfPath(f.opened, path)
  IN IF index = -1 THEN f
     ELSE LET moved == [f EXCEPT !.opened = Spliced(@, index, to)]
          IN IF Known(f, path) THEN [moved EXCEPT !.node[path][1].pinned = TRUE]
             ELSE Throws(moved)

Started(f) == [f EXCEPT !.threw = FALSE]
CanCallFile(call) == call \notin file.calls /\ Cardinality(file.calls) < MaxFileCalls

FileOpen(path, pinned) ==
  /\ CanCallFile(FileCall("list", path, pinned))
  /\ CanCallFile(FileCall("read", path, FALSE)) \/ FileCall("read", path, FALSE) \in file.calls
  /\ file' = open(Started(file), path, pinned)
  /\ UNCHANGED <<storeVars, ctxVars, orderVars, promptVars, scenarioVars, subVars, modelVars>>

\* the listing of the parent arrives and open goes on
FileOpenListed(path, pinned) ==
  LET call == FileCall("list", path, pinned)
      answered == [Started(file) EXCEPT !.calls = @ \ {call}]
  IN /\ call \in file.calls
     /\ file' = openRest(listed(answered, Parent(path)), path, pinned)
     /\ UNCHANGED <<storeVars, ctxVars, orderVars, promptVars, scenarioVars, subVars, modelVars>>

\* the listing fails: x.data is undefined and open rejects
FileOpenListFailed(path, pinned) ==
  LET call == FileCall("list", path, pinned)
  IN /\ call \in file.calls
     /\ file' = Throws([file EXCEPT !.calls = @ \ {call}])
     /\ UNCHANGED <<storeVars, ctxVars, orderVars, promptVars, scenarioVars, subVars, modelVars>>

\* the content of path arrives
FileLoaded(path) ==
  LET call == FileCall("read", path, FALSE)
  IN /\ call \in file.calls
     /\ file' = loaded([Started(file) EXCEPT !.calls = @ \ {call}], path)
     /\ UNCHANGED <<storeVars, ctxVars, orderVars, promptVars, scenarioVars, subVars, modelVars>>

FileClose(path) ==
  /\ file' = close(Started(file), path)
  /\ UNCHANGED <<storeVars, ctxVars, orderVars, promptVars, scenarioVars, subVars, modelVars>>

FileMove(path, to) ==
  /\ file' = move(Started(file), path, to)
  /\ UNCHANGED <<storeVars, ctxVars, orderVars, promptVars, scenarioVars, subVars, modelVars>>

FilesNext ==
  \/ \E path \in Paths : \E pinned \in BOOLEAN : FileOpen(path, pinned)
  \/ \E path \in Paths : \E pinned \in BOOLEAN : FileOpenListed(path, pinned)
  \/ \E path \in Paths : \E pinned \in BOOLEAN : FileOpenListFailed(path, pinned)
  \/ \E path \in Paths : FileLoaded(path)
  \/ \E path \in Paths : FileClose(path)
  \/ \E path \in Paths : \E to \in 0..(Cardinality(Paths) - 1) : FileMove(path, to)

(***************************************************************************)
(* The directory nodes of the file store: expand and collapse              *)
(* (context/local.tsx 270-278).                                            *)
(***************************************************************************)
\* expand(path) without the loaded test: every expand lists the children
expandAlwaysListing(f, dir) ==
  [f EXCEPT !.tree[dir].expanded = TRUE,
            !.tree[dir].loaded = TRUE,
            !.calls = @ \cup {FileCall("children", dir, FALSE)},
            !.fetched[dir] = @ + 1]

\* expand(path) (lines 270-275)
expand(f, dir) ==
  LET shown == [f EXCEPT !.tree[dir].expanded = TRUE]
  IN IF shown.tree[dir].loaded THEN shown
     ELSE [shown EXCEPT !.tree[dir].loaded = TRUE,
                        !.calls = @ \cup {FileCall("children", dir, FALSE)},
                        !.fetched[dir] = @ + 1]

\* collapse(path) (lines 276-278)
collapse(f, dir) == [f EXCEPT !.tree[dir].expanded = FALSE]

\* the calls made on dir so far, oldest first
Logged(f, dir, name) == [f EXCEPT !.log[dir] = Append(@, name)]
CanCallTree(dir) == Len(file.log[dir]) < MaxTreeCalls

FileExpand(dir) ==
  /\ CanCallTree(dir)
  /\ file' = Logged(expand(Started(file), dir), dir, "expand")
  /\ UNCHANGED <<storeVars, ctxVars, orderVars, promptVars, scenarioVars, subVars, modelVars>>

FileCollapse(dir) ==
  /\ CanCallTree(dir)
  /\ file' = Logged(collapse(Started(file), dir), dir, "collapse")
  /\ UNCHANGED <<storeVars, ctxVars, orderVars, promptVars, scenarioVars, subVars, modelVars>>

\* the children of dir arrive: list's then adds the nodes that are not known
FileChildrenListed(dir) ==
  LET call == FileCall("children", dir, FALSE)
  IN /\ call \in file.calls
     /\ file' = listed([file EXCEPT !.calls = @ \ {call}], dir)
     /\ UNCHANGED <<storeVars, ctxVars, orderVars, promptVars, scenarioVars, subVars, modelVars>>

\* the listing fails: nothing is stored
FileChildrenFailed(dir) ==
  LET call == FileCall("children", dir, FALSE)
  IN /\ call \in file.calls
     /\ file' = [file EXCEPT !.calls = @ \ {call}]
     /\ UNCHANGED <<storeVars, ctxVars, orderVars, promptVars, scenarioVars, subVars, modelVars>>

TreeNext ==
  \/ \E dir \in Dirs : FileExpand(dir)
  \/ \E dir \in Dirs : FileCollapse(dir)
  \/ \E dir \in Dirs : FileChildrenListed(dir)
  \/ \E dir \in Dirs : FileChildrenFailed(dir)

(***************************************************************************)
(* The changed files: the reconciliation effect and changed(path)          *)
(* (context/local.tsx 128-163).                                            *)
(***************************************************************************)
\* a path as the string of its characters
Spell(path) ==
  CASE path = "" -> <<>>
    [] path = "a" -> <<"a">>
    [] path = "b" -> <<"b">>
    [] path = "d" -> <<"d">>
    [] path = "dd" -> <<"d", "d">>
    [] path = "d/c" -> <<"d", "/", "c">>
    [] path = "dd/c" -> <<"d", "d", "/", "c">>
    [] path = ".git/x" -> <<".", "g", "i", "t", "/", "x">>
    [] path = ".gitx" -> <<".", "g", "i", "t", "x">>

\* s.startsWith(prefix)
StartsWith(s, prefix) ==
  Len(prefix) <= Len(s) /\ SubSeq(s, 1, Len(prefix)) = prefix

\* the rest of changed(path), after the status test (lines 157-162)
changedInSet(set, path) ==
  \/ path \in set
  \/ \E p \in set :
       StartsWith(Spell(p), IF path # "" THEN Spell(path) \o <<"/">> ELSE <<>>)

\* changed(path) (lines 154-163)
changed(f, path) ==
  \/ path \in Files /\ Known(f, path) /\ path \in f.status
  \/ changedInSet(f.changes, path)

RECURSIVE reconcileRemoved(_, _)
\* the effect's first loop: the status of a removed path is cleared, if its
\* node is known, and its content is read again
reconcileRemoved(f, removed) ==
  IF removed = {} THEN f
  ELSE LET p == CHOOSE x \in removed : TRUE
       IN reconcileRemoved([f EXCEPT !.status = @ \ {p},
                                     !.calls = @ \cup {FileCall("read", p, FALSE)}],
                           removed \ {p})

RECURSIVE reconcileChanged(_, _)
\* the effect's second loop: a known node takes the status at once, an unknown
\* one after fetch(path); for a top-level path fetch lists nothing and the
\* write of the status throws in the promise
reconcileChanged(f, set) ==
  IF set = {} THEN f
  ELSE LET p == CHOOSE x \in set : TRUE
           next == IF Known(f, p) THEN [f EXCEPT !.status = @ \cup {p}]
                   ELSE IF Parent(p) # ""
                   THEN [f EXCEPT !.calls = @ \cup {FileCall("status", p, FALSE)}]
                   ELSE f
       IN reconcileChanged(next, set \ {p})

\* the effect on sync.data.changes (lines 131-152), prev being f.changes
reconcileChanges(f, set) ==
  [reconcileChanged(reconcileRemoved(f, f.changes \ set), set) EXCEPT !.changes = set]

\* fetch(path).then(() => setStore("node", path, "status", p)), the listing of
\* the parent having arrived
statusFetched(f, path) ==
  LET fetched == listed(f, Parent(path))
  IN IF Known(fetched, path) THEN [fetched EXCEPT !.status = @ \cup {path}]
     ELSE fetched

\* sync.data.changes takes a new value and the effect runs
ChangesUpdated(set) ==
  /\ set # file.changes
  /\ file.updates < MaxUpdates
  /\ file' = [reconcileChanges(file, set) EXCEPT !.updates = @ + 1]
  /\ UNCHANGED <<storeVars, ctxVars, orderVars, promptVars, scenarioVars, subVars, modelVars>>

\* the listing of the parent of a changed path arrives
ChangedListed(path) ==
  LET call == FileCall("status", path, FALSE)
  IN /\ call \in file.calls
     /\ file' = statusFetched([file EXCEPT !.calls = @ \ {call}], path)
     /\ UNCHANGED <<storeVars, ctxVars, orderVars, promptVars, scenarioVars, subVars, modelVars>>

\* the listing fails: fetch rejects and no status is written
ChangedListFailed(path) ==
  LET call == FileCall("status", path, FALSE)
  IN /\ call \in file.calls
     /\ file' = [file EXCEPT !.calls = @ \ {call}]
     /\ UNCHANGED <<storeVars, ctxVars, orderVars, promptVars, scenarioVars, subVars, modelVars>>

ChangesNext ==
  \/ \E set \in SUBSET ChangedFiles : ChangesUpdated(set)
  \/ \E path \in ChangedFiles : ChangedListed(path)
  \/ \E path \in ChangedFiles : ChangedListFailed(path)
  \/ \E path \in ChangedFiles : FileLoaded(path)

(***************************************************************************)
(* The file watcher: bus.listen, file.watcher.updated                      *)
(* (context/local.tsx 228-252).                                            *)
(***************************************************************************)
\* the paths the watcher reports: files of the project, a file of the
\* version-control directory and a file whose name only starts like it
WatchedPaths == {"a", "d/c", ".git/x", ".gitx"}

\* sync.data.path.directory
Directory == <<"/", "p">>
\* the files as the events name them: relative, or under the directory
WatchedFiles ==
  {Spell(path) : path \in WatchedPaths}
    \cup {Directory \o <<"/">> \o Spell(path) : path \in WatchedPaths}

\* s.replace(pattern, ""): the first occurrence of pattern is taken out
Replaced(s, pattern) ==
  LET at == {i \in 1..(Len(s) - Len(pattern) + 1) :
               SubSeq(s, i, i + Len(pattern) - 1) = pattern}
  IN IF at = {} THEN s
     ELSE LET i == CHOOSE x \in at : \A y \in at : x <= y
          IN SubSeq(s, 1, i - 1) \o SubSeq(s, i + Len(pattern), Len(s))

\* relative(path) (line 169)
relative(s) == Replaced(s, Directory \o <<"/">>)

\* the path spelled s
Named(s) == CHOOSE path \in WatchedPaths : Spell(path) = s

\* setTimeout(sync.load.changes, 1000): one more timer runs; fired counts the
\* refreshes since the last event that met no running timer
scheduled(f) ==
  [f EXCEPT !.timers = @ + 1, !.fired = IF f.timers = 0 THEN 0 ELSE @]

\* load(path) (lines 171-183): the content is requested
load(f, path) == [f EXCEPT !.calls = @ \cup {FileCall("read", path, FALSE)}]

\* case "file.watcher.updated" (lines 245-250)
watcherUpdated(f, s) ==
  LET timed == scheduled(f)
      relativePath == relative(s)
  IN IF StartsWith(relativePath, <<".", "g", "i", "t", "/">>) THEN timed
     ELSE load(timed, Named(relativePath))

\* a timer runs out: sync.load.changes is called
timerFired(f) == [f EXCEPT !.timers = @ - 1, !.fired = @ + 1]

FileWatcherUpdated(s) ==
  /\ file.timers < MaxTimers
  /\ file.fired < MaxTimers
  /\ file' = watcherUpdated(file, s)
  /\ UNCHANGED <<storeVars, ctxVars, orderVars, promptVars, scenarioVars, subVars, modelVars>>

RefreshTimerFired ==
  /\ file.timers > 0
  /\ file' = timerFired(file)
  /\ UNCHANGED <<storeVars, ctxVars, orderVars, promptVars, scenarioVars, subVars, modelVars>>

WatcherNext ==
  \/ \E s \in WatchedFiles : FileWatcherUpdated(s)
  \/ RefreshTimerFired
  \/ \E path \in WatchedPaths : FileLoaded(path)

(***************************************************************************)
(* The model store of context/local.tsx (lines 62-110): the model chosen   *)
(* for the agent and the recent models.                                    *)
(***************************************************************************)
\* ids as the strings of their characters
ProviderIDs == {<<"a">>, <<"a", "b">>, <<"p">>, <<"q">>}
ModelIDs == {<<"b", "c">>, <<"c">>}
\* ModelKey
ModelKeys == [providerID : ProviderIDs, modelID : ModelIDs]
ModelKey(providerID, modelID) == [providerID |-> providerID, modelID |-> modelID]

\* the model of the first provider: fallback() when nothing is recent
DefaultKey == ModelKey(<<"a">>, <<"c">>)

\* seven keys no two of which spell the same providerID + modelID
LongStored ==
  <<ModelKey(<<"a">>, <<"b", "c">>), ModelKey(<<"a">>, <<"c">>),
    ModelKey(<<"a", "b">>, <<"b", "c">>), ModelKey(<<"p">>, <<"b", "c">>),
    ModelKey(<<"p">>, <<"c">>), ModelKey(<<"q">>, <<"b", "c">>),
    ModelKey(<<"q">>, <<"c">>)>>

\* JSON.parse(localStorage.getItem("model") ?? "[]"): the lists of at most
\* MaxStored keys, and one of seven
StoredLists ==
  UNION {[1..n -> ModelKeys] : n \in 0..MaxStored} \cup {LongStored}

\* createStore's initial value with the stored list set (lines 68-77)
InitialModels(stored) == [model |-> None, recent |-> stored]

\* (x) => x.providerID + x.modelID
keyOf(x) == x.providerID \o x.modelID

RECURSIVE uniqueByKey(_, _)
\* uniqueBy(list, keyOf): the first entry of each key, in the order of list;
\* taken holds the keys met so far
uniqueByKey(list, taken) ==
  IF list = <<>> THEN <<>>
  ELSE IF keyOf(Head(list)) \in taken THEN uniqueByKey(Tail(list), taken)
  ELSE <<Head(list)>> \o uniqueByKey(Tail(list), taken \cup {keyOf(Head(list))})

\* fallback() (lines 82-87)
fallback(ms) == IF ms.recent # <<>> THEN ms.recent[1] ELSE DefaultKey

\* model.set(model, { recent }) (lines 100-109), model being None for undefined
set(ms, model, recent) ==
  LET chosen == [ms EXCEPT !.model = IF model # None THEN model ELSE Some(fallback(ms))]
      uniq == uniqueByKey(model \o ms.recent, {})
  IN IF recent /\ model # None
     THEN [chosen EXCEPT !.recent = IF Len(uniq) > 5 THEN SubSeq(uniq, 1, Len(uniq) - 1)
                                    ELSE uniq]
     ELSE chosen

ModelSet(model, recent) ==
  /\ modelStore' = set(modelStore, model, recent)
  /\ UNCHANGED <<storeVars, ctxVars, orderVars, promptVars, scenarioVars, subVars, fileVars>>

ModelsNext ==
  \E model \in {None} \cup {Some(key) : key \in ModelKeys} : \E recent \in BOOLEAN :
    ModelSet(model, recent)

(***************************************************************************)
(* Specifications.                                                         *)
(***************************************************************************)
StoreInit ==
  /\ state = InitialState
  /\ pending = EmptyBag
  /\ settled = None
  /\ seen = {}

CtxInit ==
  /\ ctx = CtxMounted.ctx
  /\ ctxPending = CtxMounted.pending
  /\ ctxSettled = None

Init ==
  /\ StoreInit
  /\ observing = FALSE
  /\ CtxInit
  /\ OrderIdle
  /\ PromptsIdle
  /\ overlap = MaxInflight
  /\ Unmounted
  /\ file = InitialFiles
  /\ modelStore = InitialModels(<<>>)

\* The main specification: session s1 holds message m1 (any creation time, with or
\* without its part p1), session s2 holds message m4; sessions are stamped alike.
MainUniverse ==
  Universe({i \in SessionInfo : i.updated = 1},
           {Msg("m1", t, ps) : <<t, ps>> \in Times \X {<<>>, <<Part("p1", "m1", "running")>>}}
             \cup {Msg("m4", 1, <<>>)},
           {Part("p1", "m1", "running")},
           OneError, TwoTexts)

Next == StoreNext(MainUniverse)

Spec == Init /\ [][Next]_vars

\* the main specification with the observed message creations recorded
InitObserved ==
  /\ StoreInit
  /\ observing = TRUE
  /\ CtxInit
  /\ OrderIdle
  /\ PromptsIdle
  /\ overlap = MaxInflight
  /\ Unmounted
  /\ file = InitialFiles
  /\ modelStore = InitialModels(<<>>)

SpecObserved == InitObserved /\ [][Next]_vars

\* The context provider against a server holding message m1 (with or without its
\* part p1) in session s1 and message m4 in session s2.
CtxUniverse ==
  Universe({i \in SessionInfo : i.updated = 1},
           {Msg("m1", 1, ps) : ps \in {<<>>, <<Part("p1", "m1", "running")>>}}
             \cup {Msg("m4", 1, <<>>)},
           {Part("p1", "m1", "running")},
           OneError, TwoTexts)

NextCtx == CtxNext(CtxUniverse)

SpecCtx == Init /\ [][NextCtx]_vars

\* the ordering scenario
InitOrder ==
  /\ StoreInit
  /\ observing = FALSE
  /\ CtxInit
  /\ OrderInit
  /\ PromptsIdle
  /\ overlap = MaxInflight
  /\ Unmounted
  /\ file = InitialFiles
  /\ modelStore = InitialModels(<<>>)

SpecOrder == InitOrder /\ [][OrderNext]_vars

\* The session list: sessions carry every time.updated, session s1 holds message m1.
SessionsUniverse ==
  Universe(SessionInfo,
           {Msg("m1", 1, <<>>)},
           {Part("p1", "m1", "running")},
           OneError, TwoTexts)

NextSessions == StoreNext(SessionsUniverse)

SpecSessions == Init /\ [][NextSessions]_vars

\* The event folds: session s1 holds messages m1 and m2 with any creation times,
\* m1 has parts p1 and p2, session s2 holds message m4.
ReducerUniverse ==
  Universe({i \in SessionInfo : i.updated = 1},
           {Msg(id, t, <<>>) : <<id, t>> \in {"m1", "m2"} \X Times} \cup {Msg("m4", 1, <<>>)},
           {Part("p1", "m1", "running"), Part("p2", "m1", "running")},
           OneError, TwoTexts)

\* events and prompts only: no session list or message list is fetched
StoreFolds(U) ==
  \/ \E sessionID \in SessionIDs : SelectSession(sessionID)
  \/ \E sessionID \in SessionIDs : \E text \in U.texts : Prompt(sessionID, text)
  \/ \E sessionID \in SessionIDs : \E response \in U.messages[sessionID] :
       PromptOk(sessionID, response)
  \/ \E sessionID \in SessionIDs : PromptFail(sessionID)
  \/ \E info \in U.sessionInfos : SessionUpdated(info)
  \/ \E info \in U.sessionInfos : SessionDeleted(info)
  \/ \E sessionID \in SessionIDs : SessionIdle(sessionID)
  \/ \E sessionID \in SessionIDs \cup {Undefined} : \E error \in U.errors :
       SessionError(sessionID, error)
  \/ \E sessionID \in SessionIDs : \E message \in U.messages[sessionID] :
       MessageCreated(message)
  \/ \E info \in U.messageInfos : MessageUpdated(info)
  \/ \E messageID \in U.messageIDs : MessageRemoved(messageID)
  \/ \E part \in U.parts : MessagePartUpdated(part)
  \/ \E messageID \in U.messageIDs : \E partID \in U.partIDs :
       MessagePartRemoved(messageID, partID)

NextReducer == StoreFolds(ReducerUniverse)

SpecReducer == Init /\ [][NextReducer]_vars

\* Overlapping prompts: blank and non-blank texts, replies m1 (session s1) and m4
\* (session s2), and the events that touch busySessionIDs and lastError.
Texts ==
  {<<>>, <<" ">>, <<"\t", "\n">>, <<" ", "\n", " ">>, <<"h", "i">>, <<" ", "h", " ">>, <<"\n", "h">>}

PromptsUniverse ==
  Universe({i \in SessionInfo : i.updated = 1},
           {Msg("m1", 1, <<>>), Msg("m4", 1, <<>>)},
           {}, OneError, Texts)

PromptReplies(U) == UNION {U.messages[sessionID] : sessionID \in SessionIDs}

PromptsNext(U) ==
  \/ \E n \in PromptSlots : \E sessionID \in SessionIDs : \E text \in U.texts :
       PromptCall(n, sessionID, text)
  \/ \E n \in PromptSlots : \E response \in PromptReplies(U) : PromptCallOk(n, response)
  \/ \E n \in PromptSlots : PromptCallFail(n)
  \/ ClearError
  \/ \E info \in U.sessionInfos : SessionDeleted(info)
  \/ \E sessionID \in SessionIDs : SessionIdle(sessionID)
  \/ \E sessionID \in SessionIDs \cup {Undefined} : \E error \in U.errors :
       SessionError(sessionID, error)

NextPrompts == PromptsNext(PromptsUniverse)

SpecPrompts == Init /\ [][NextPrompts]_vars

\* Overlapping fetches: the session list and the messages of s1 and s2 are fetched,
\* by the effects, by server.connected and by selecting a session, up to MaxOverlap
\* at once.
InitOverlap ==
  /\ StoreInit
  /\ observing = FALSE
  /\ CtxInit
  /\ OrderIdle
  /\ PromptsIdle
  /\ overlap = MaxOverlap
  /\ Unmounted
  /\ file = InitialFiles
  /\ modelStore = InitialModels(<<>>)

OverlapUniverse ==
  Universe({i \in SessionInfo : i.updated = 1},
           {Msg("m1", 1, <<>>), Msg("m4", 1, <<>>)},
           {}, OneError, TwoTexts)

StoreFetches(U) ==
  \/ \E sessionID \in SessionIDs : SelectSession(sessionID)
  \/ RefreshSessions
  \/ \E result \in U.sessionLists : RefreshSessionsOk(result)
  \/ RefreshSessionsFail
  \/ \E sessionID \in SessionIDs : LoadMessages(sessionID)
  \/ \E sessionID \in SessionIDs : \E result \in U.messageLists[sessionID] :
       LoadMessagesOk(sessionID, result)
  \/ \E sessionID \in SessionIDs : LoadMessagesFail(sessionID)
  \/ ServerConnected

NextOverlap == StoreFetches(OverlapUniverse)

SpecOverlap == InitOverlap /\ [][NextOverlap]_vars

\* selectSession called with the id of a session of the list
SelectListedSession(sessionID) ==
  /\ sessionID \in Ids(state.sessions)
  /\ SelectSession(sessionID)

\* The active session: listed sessions are selected while sessions are fetched,
\* created and deleted, two calls at a time, and session events arrive.
ActiveNext(U) ==
  \/ \E sessionID \in SessionIDs : SelectListedSession(sessionID)
  \/ RefreshSessions
  \/ \E result \in U.sessionLists : RefreshSessionsOk(result)
  \/ RefreshSessionsFail
  \/ CreateSession
  \/ \E session \in U.sessionInfos : CreateSessionOk(session)
  \/ CreateSessionFail
  \/ \E sessionID \in SessionIDs : DeleteSession(sessionID)
  \/ \E sessionID \in SessionIDs : DeleteSessionOk(sessionID)
  \/ \E sessionID \in SessionIDs : DeleteSessionFail(sessionID)
  \/ ServerConnected
  \/ \E info \in U.sessionInfos : SessionUpdated(info)
  \/ \E info \in U.sessionInfos : SessionDeleted(info)

NextActive == ActiveNext(SessionsUniverse)

SpecActive == InitOverlap /\ [][NextActive]_vars

\* The subscriptions: both providers mount, change their config and unmount while
\* session.updated events for s1 arrive.
SpecSubscription == Init /\ [][SubscriptionNext]_vars

\* The file tabs: files are opened, pinned or not, moved and closed while their
\* listings and contents arrive.
SpecFiles == Init /\ [][FilesNext]_vars

\* The directory tree: directories are expanded and collapsed while their
\* listings arrive or fail.
SpecTree == Init /\ [][TreeNext]_vars

\* The changed files: the changed-set takes new values while the listings
\* fetched for unknown changed paths and the contents read again arrive.
SpecChanges == Init /\ [][ChangesNext]_vars

\* The file watcher: events arrive while the refresh timers run out and the
\* contents read again arrive.
SpecWatcher == Init /\ [][WatcherNext]_vars

\* The recent models: models are set, recent or not, from whatever list was
\* stored.
InitModels ==
  /\ StoreInit
  /\ observing = FALSE
  /\ CtxInit
  /\ OrderIdle
  /\ PromptsIdle
  /\ overlap = MaxInflight
  /\ Unmounted
  /\ file = InitialFiles
  /\ \E stored \in StoredLists : modelStore = InitialModels(stored)

SpecModels == InitModels /\ [][ModelsNext]_vars

\* The tool parts: message m1 of session s1 has part p1 in any tool state and part p2.
PartsUniverse ==
  Universe({i \in SessionInfo : i.updated = 1},
           {Msg("m1", 1, <<>>), Msg("m4", 1, <<>>)},
           {ToolPart("p1", "m1", "pending", Undefined), ToolPart("p1", "m1", "running", Undefined),
            ToolPart("p1", "m1", "completed", "x"), ToolPart("p1", "m1", "error", Undefined),
            ToolPart("p2", "m1", "running", Undefined)},
           OneError, TwoTexts)

NextParts == StoreFolds(PartsUniverse)

SpecParts == Init /\ [][NextParts]_vars

(***************************************************************************)
(* Claims about the zustand store under interleaved calls and events.      *)
(***************************************************************************)
SameEntry(a, b, k) == (HasKey(a, k) <=> HasKey(b, k)) /\ GetOr(a, k) = GetOr(b, k)

\* C1: at the step where the response of loadMessages(A) resolves while the active
\* session is not A (it was switched to B meanwhile), activeMessages and every entry
\* of messages other than A's are what they were; the response is written under
\* messages[A] only.
C1_StaleResponseGuard ==
  [][\A A \in SessionIDs :
       (settled' = Outcome(Call("loadMessages", A), TRUE) /\ state.activeSessionID # A)
         => /\ state'.activeMessages = state.activeMessages
            /\ \A B \in SessionIDs \ {A} : SameEntry(state'.messages, state.messages, B)
            /\ HasKey(state'.messages, A)]_vars

\* a late response for s1 has just been stored while s2 is active with its own messages
C1_Witness ==
  /\ settled = Outcome(Call("loadMessages", "s1"), TRUE)
  /\ state.activeSessionID = "s2"
  /\ HasKey(state.messages, "s1") /\ state.messages["s1"] # <<>>
  /\ HasKey(state.messages, "s2") /\ state.messages["s2"] # <<>>
  /\ state.activeMessages = state.messages["s2"]

\* C3: activeMessages equals messages[activeSessionID] when the active session is set
\* and has an entry, and is empty otherwise.
C3_ActiveMessagesLive ==
  state.activeMessages =
    IF state.activeSessionID # Undefined /\ HasKey(state.messages, state.activeSessionID)
    THEN state.messages[state.activeSessionID]
    ELSE <<>>

\* the active session shows a message that events created, re-stamped and gave a part
C3_Witness ==
  /\ state.activeSessionID = "s1"
  /\ HasKey(state.messages, "s1")
  /\ Len(state.activeMessages) = 1
  /\ state.activeMessages[1].info.created = MaxTime
  /\ state.activeMessages[1].parts # <<>>
  /\ HasKey(state.messages, "s2") /\ state.messages["s2"] # <<>>

\* C4: a message whose message.created event was folded stays in its session's list
\* until a message.removed event for it or the removal of its session is folded.
C4_NoObservedMessageLost ==
  \A m \in seen : m \in MsgIds(GetOr(state.messages, MsgOwner(m)))

(***************************************************************************)
(* Claims about the context provider under interleaved calls and events.   *)
(***************************************************************************)
\* C2: in the context provider, at the step where the response of the fetchMessages
\* request issued for session A resolves while the active session is no longer A,
\* the response goes under messages[A] only: every other entry of messages, the
\* active session and the derived activeMessages are what they were.
C2_CtxStaleResponseKeptApart ==
  [][\A A \in SessionIDs :
       (/\ ctxSettled' = Outcome(Call("fetchMessages", A), TRUE)
        /\ ctx.activeSessionID # A)
         => /\ \A B \in SessionIDs \ {A} : SameEntry(ctx'.messages, ctx.messages, B)
            /\ HasKey(ctx'.messages, A)
            /\ ctx'.activeSessionID = ctx.activeSessionID
            /\ ctx_activeMessages(ctx') = ctx_activeMessages(ctx)]_vars

\* the late response for s1 has just been stored while s2 is active with its messages
C2_Witness ==
  /\ ctxSettled = Outcome(Call("fetchMessages", "s1"), TRUE)
  /\ ctx.activeSessionID = "s2"
  /\ HasKey(ctx.messages, "s1") /\ ctx.messages["s1"] # <<>>
  /\ HasKey(ctx.messages, "s2") /\ ctx.messages["s2"] # <<>>
  /\ ctx_activeMessages(ctx) = ctx.messages["s2"]

\* C9: folding a message.part.updated event whose part.messageID is in no session's
\* message list leaves the whole snapshot as it was: same sessions, same keys of
\* messages with the same lists, same busy set and active session.
C9_UnknownPartLeavesSnapshot ==
  \A part \in CtxUniverse.parts :
    (\A sessionID \in SessionIDs : part.messageID \notin MsgIds(GetOr(ctx.messages, sessionID)))
      => handleEvent(ctx, [type |-> "message.part.updated", part |-> part]) = ctx

(***************************************************************************)
(* Claims about the order of the lists.                                    *)
(***************************************************************************)
StrictlyAscending(list) ==
  \A i \in 1..(Len(list) - 1) : list[i].info.created < list[i + 1].info.created

\* C5: whatever the order in which the message.created events of a session, stamped
\* with pairwise distinct time.created, have been folded from the empty list, the
\* list holds exactly the delivered messages in ascending time.created, in both
\* variants; that list is the same for every delivery order.
C5_CreatedOrderIndependent ==
  /\ StrictlyAscending(order.list)
  /\ Len(order.list) = Len(order.delivered)
  /\ Range(order.list) = Range(order.delivered)
  /\ order.ctxList = order.list

\* three events were delivered latest first and the list is earliest first
C5_Witness ==
  /\ order.todo = {}
  /\ Len(order.delivered) = 3
  /\ order.delivered[1].info.created > order.delivered[2].info.created
  /\ order.delivered[2].info.created > order.delivered[3].info.created
  /\ order.list = <<order.delivered[3], order.delivered[2], order.delivered[1]>>

\* the message events of a universe, and what the store folds
MessageCreatedEvents(U) ==
  {[type |-> "message.created", info |-> m.info, parts |-> m.parts] :
     m \in UNION {U.messages[sessionID] : sessionID \in SessionIDs}}
MessageUpdatedEvents(U) == {[type |-> "message.updated", info |-> i] : i \in U.messageInfos}
MessageRemovedEvents(U) ==
  {[type |-> "message.removed", sessionID |-> MsgOwner(m), messageID |-> m] :
     m \in U.messageIDs}
PartUpdatedEvents(U) == {[type |-> "message.part.updated", part |-> p] : p \in U.parts}
PartRemovedEvents(U) ==
  {[type |-> "message.part.removed", sessionID |-> MsgOwner(mp[1]), messageID |-> mp[1],
    partID |-> mp[2]] : mp \in U.messageIDs \X U.partIDs}
SessionEvents(U) ==
  {[type |-> t, info |-> i] : <<t, i>> \in {"session.updated", "session.deleted"} \X U.sessionInfos}
    \cup {[type |-> "session.idle", sessionID |-> sessionID] : sessionID \in SessionIDs}
    \cup {[type |-> "session.error", sessionID |-> se[1], error |-> se[2]] :
            se \in (SessionIDs \cup {Undefined}) \X U.errors}
Events(U) ==
  SessionEvents(U) \cup MessageCreatedEvents(U) \cup MessageUpdatedEvents(U)
    \cup MessageRemovedEvents(U) \cup PartUpdatedEvents(U) \cup PartRemovedEvents(U)

AllSortedAsc(st) == \A sessionID \in SessionIDs : SortedAsc(GetOr(st.messages, sessionID))

\* C6: folding a message.created, message.updated or message.removed event, or
\* merging a prompt response, into message lists sorted ascending by time.created
\* gives lists sorted ascending by time.created.
C6_MessageSortReapplied ==
  AllSortedAsc(state) =>
    /\ \A e \in MessageCreatedEvents(ReducerUniverse) \cup MessageUpdatedEvents(ReducerUniverse)
                  \cup MessageRemovedEvents(ReducerUniverse) :
         AllSortedAsc(FoldEvent(state, e))
    /\ \A sessionID \in SessionIDs : \A response \in ReducerUniverse.messages[sessionID] :
         AllSortedAsc(promptResolved(state, sessionID, response))

\* C7: the session list is sorted descending by time.updated in every reachable
\* state, whatever session events, refreshSessions responses, createSession and
\* deleteSession calls led to it.
C7_SessionsSortedDesc == SortedDesc(state.sessions)

\* s2, updated later, is listed before s1
C7_Witness ==
  state.sessions = <<[id |-> "s2", updated |-> 2], [id |-> "s1", updated |-> 1]>>

(***************************************************************************)
(* Claims about the event folds of the zustand store.                      *)
(***************************************************************************)
\* C8: folding any event twice in a row gives the state that folding it once gives.
C8_FoldIdempotent ==
  \A e \in Events(ReducerUniverse) : FoldEvent(FoldEvent(state, e), e) = FoldEvent(state, e)

Effective(type) == \E e \in Events(ReducerUniverse) : e.type = type /\ FoldEvent(state, e) # state

\* two sessions, two messages in s1, a busy session, and an event of each kind that
\* changes this state
C8_Witness ==
  /\ Len(state.sessions) = 2
  /\ Len(GetOr(state.messages, "s1")) = 2
  /\ state.busySessionIDs # {}
  /\ \A type \in {"session.deleted", "session.idle", "session.error", "message.created",
                  "message.updated", "message.removed", "message.part.updated",
                  "message.part.removed"} : Effective(type)

InfoReplacedAt(before, after, index, info) ==
  /\ Len(after) = Len(before)
  /\ after[index] = [info |-> info, parts |-> before[index].parts]
  /\ \A i \in (1..Len(before)) \ {index} : after[i] = before[i]

\* C10: folding message.updated puts the event's info on the message with that id,
\* whose parts and place in the list stay, as do the other messages; with no such
\* message in the session's list the store is left as it was and the list gets no
\* entry.  The context provider's list merge does the same to the list.
C10_InfoReplacedInPlace ==
  \A info \in ReducerUniverse.messageInfos :
    LET before == GetOr(state.messages, info.sessionID)
        index == IndexOfMessage(before, info.id)
        folded == FoldEvent(state, [type |-> "message.updated", info |-> info])
    IN IF index = 0
       THEN folded = state /\ mergeMessageInfo(before, info) = before
       ELSE /\ InfoReplacedAt(before, folded.messages[info.sessionID], index, info)
            /\ InfoReplacedAt(before, mergeMessageInfo(before, info), index, info)
            /\ \A other \in SessionIDs \ {info.sessionID} :
                 SameEntry(folded.messages, state.messages, other)
            /\ [folded EXCEPT !.messages = state.messages,
                              !.activeMessages = state.activeMessages] = state

\* s1 lists m1, with a part, before m2, both stamped 1, so that an update of m1
\* stamped 2 would move it if the list were sorted again; s2 has no list, so an
\* update of m4 finds nothing
C10_Witness ==
  /\ Len(GetOr(state.messages, "s1")) = 2
  /\ state.messages["s1"][1].info.id = "m1"
  /\ state.messages["s1"][1].info.created = 1
  /\ state.messages["s1"][1].parts # <<>>
  /\ state.messages["s1"][2].info.created = 1
  /\ ~HasKey(state.messages, "s2")

(***************************************************************************)
(* Claims about tool parts.                                                *)
(***************************************************************************)
\* parts with the part of that id replaced by part, nothing else touched
PartReplaced(before, after, part) ==
  /\ Len(after) = Len(before)
  /\ \A i \in 1..Len(before) : after[i] = IF before[i].id = part.id THEN part ELSE before[i]
  /\ Cardinality({i \in 1..Len(after) : after[i].id = part.id}) = 1

\* C11: folding message.part.updated for a part id that the owning message already
\* has leaves exactly one part with that id, equal to the event's part in every
\* field, and the message's other parts as they were; in the zustand store and in
\* the context provider's list merge.
C11_PartReplacedWholesale ==
  \A part \in PartsUniverse.parts :
    LET before == GetOr(state.messages, part.sessionID)
        index == IndexOfMessage(before, part.messageID)
        folded == FoldEvent(state, [type |-> "message.part.updated", part |-> part])
    IN (index >= 1 /\ part.id \in Ids(before[index].parts))
         => /\ PartReplaced(before[index].parts,
                            folded.messages[part.sessionID][index].parts, part)
            /\ PartReplaced(before[index].parts,
                            mergeMessagePart(before, part)[index].parts, part)

\* m1 holds p1 completed with its output, and p2: an update of p1 to running has no
\* output to put in its place
C11_Witness ==
  /\ HasKey(state.messages, "s1")
  /\ Len(state.messages["s1"]) = 1
  /\ state.messages["s1"][1].parts =
       <<ToolPart("p1", "m1", "completed", "x"), ToolPart("p2", "m1", "running", Undefined)>>

ToolTransitions ==
  {<<"pending", "running">>, <<"running", "completed">>, <<"running", "error">>,
   <<"pending", "completed">>, <<"pending", "error">>}

\* C12: folding a message.part.updated event leaves the status of a stored tool
\* part as it is or moves it along pending->running, running->completed,
\* running->error, pending->completed or pending->error; a completed or error part
\* keeps its status.
C12_ToolStatusTransitions ==
  \A part \in PartsUniverse.parts :
    LET before == GetOr(state.messages, part.sessionID)
        index == IndexOfMessage(before, part.messageID)
        folded == FoldEvent(state, [type |-> "message.part.updated", part |-> part])
    IN index >= 1 =>
         \A i \in 1..Len(before[index].parts) :
           LET old == before[index].parts[i]
               new == folded.messages[part.sessionID][index].parts
               j == IndexOfId(new, old.id)
           IN /\ j >= 1
              /\ \/ new[j].status = old.status
                 \/ <<old.status, new[j].status>> \in ToolTransitions

(***************************************************************************)
(* Claims about ids.                                                       *)
(***************************************************************************)
\* C13: the responses carrying no duplicate ids, no two sessions of the session list
\* share an id, no two messages of a session's list share an id and no two parts of
\* a message share an id, in every reachable state.
C13_IdsUnique ==
  /\ NoDupIds(state.sessions)
  /\ \A sessionID \in SessionIDs :
       LET list == GetOr(state.messages, sessionID)
       IN /\ NoDupMsgIds(list)
          /\ \A i \in 1..Len(list) : NoDupIds(list[i].parts)
  /\ NoDupMsgIds(state.activeMessages)

\* the response of a prompt for s1 has just been merged, the message.created event
\* of the same message m1 was folded before it, and m1 is there once with its part
C13_Witness ==
  /\ settled = Outcome(Call("prompt", "s1"), TRUE)
  /\ "m1" \in seen
  /\ Len(state.sessions) = 2
  /\ MsgIds(GetOr(state.messages, "s1")) = {"m1"}
  /\ Len(state.messages["s1"][1].parts) = 1


(***************************************************************************)
(* Claims about busySessionIDs.                                            *)
(***************************************************************************)
\* the step is the catch-and-finally of the prompt call in slot n
PromptFailedAt(n) ==
  /\ Awaiting(n)
  /\ prompts'[n] = None
  /\ settled' = Outcome(Call("prompt", Awaited(n).sessionID), FALSE)

\* C14: when the send request of a prompt call fails, busySessionIDs after the call
\* has completed equals busySessionIDs as it was just before the call started,
\* whatever other prompt calls and events happened in between.
C14_FailedPromptRestoresBusy ==
  [][\A n \in PromptSlots :
       PromptFailedAt(n) => state'.busySessionIDs = Awaited(n).before]_vars

\* C14, for the call's own session only: the session is busy after the failed call
\* exactly if it was busy before the call started.
C14_OwnSessionRestored ==
  [][\A n \in PromptSlots :
       PromptFailedAt(n) =>
         (Awaited(n).sessionID \in state'.busySessionIDs)
           = (Awaited(n).sessionID \in Awaited(n).before)]_vars

\* C15: in every reachable state busySessionIDs is a subset of the ids of the
\* sessions in the session list.
C15_BusyAreKnownSessions == state.busySessionIDs \subseteq Ids(state.sessions)

\* the step adds sessionID to busySessionIDs
BecomesBusy(sessionID) ==
  sessionID \notin state.busySessionIDs /\ sessionID \in state'.busySessionIDs

\* the step is the start of a prompt call for sessionID that sends its request
PromptStartedFor(sessionID) ==
  \E n \in PromptSlots :
    /\ ~Awaiting(n)
    /\ prompts'[n] = Some([sessionID |-> sessionID, before |-> state.busySessionIDs])

\* the step is the completion or the failure of the prompt call in slot n
PromptSettledAt(n) ==
  /\ Awaiting(n)
  /\ prompts'[n] = None
  /\ \E ok \in BOOLEAN : settled' = Outcome(Call("prompt", Awaited(n).sessionID), ok)

\* folding session.idle or session.error for a session leaves it not busy
IdleAndErrorClearBusy ==
  \A sessionID \in SessionIDs :
    /\ sessionID \notin
         FoldEvent(state, [type |-> "session.idle", sessionID |-> sessionID]).busySessionIDs
    /\ \A error \in OneError :
         sessionID \notin
           FoldEvent(state, [type |-> "session.error", sessionID |-> sessionID,
                             error |-> error]).busySessionIDs

\* a busy session has a prompt call in flight
BusyHavePrompt == \A sessionID \in state.busySessionIDs : PromptsFor(sessionID) # {}

\* C16: a session id enters busySessionIDs only at the start of a prompt call for
\* it that sends its request; it is absent right after session.idle or
\* session.error for it is folded and right after a prompt call for it completes
\* or fails; so a session is busy only while a prompt call for it is in flight.
C16_BusyOnlyWhilePrompting ==
  /\ [][/\ \A sessionID \in SessionIDs : BecomesBusy(sessionID) => PromptStartedFor(sessionID)
        /\ \A n \in PromptSlots :
             PromptSettledAt(n) => Awaited(n).sessionID \notin state'.busySessionIDs]_vars
  /\ [](IdleAndErrorClearBusy /\ BusyHavePrompt)

\* a prompt call for s1 has just failed while one for s2 is in flight
C16_Witness ==
  /\ settled = Outcome(Call("prompt", "s1"), FALSE)
  /\ state.busySessionIDs = {"s2"}
  /\ PromptsFor("s2") # {}

(***************************************************************************)
(* Claims about prompt's text.                                             *)
(***************************************************************************)
\* empty, or white space only
IsBlank(text) == \A i \in 1..Len(text) : text[i] \in WhiteSpace

\* C17: prompt with empty or whitespace-only text sends no request and leaves the
\* store (sessions, messages, activeMessages, busySessionIDs, lastError) as it was.
C17_BlankPromptIsNoOp ==
  \A sessionID \in SessionIDs : \A text \in Texts :
    IsBlank(text) =>
      /\ ~promptSends(text)
      /\ promptStart(state, sessionID, text) = state

\* where a blank prompt for s2 is called: a prompt for s1 awaits its response, an
\* earlier failure is recorded and session s2 has a message
C17_Witness ==
  /\ PromptsFor("s1") # {}
  /\ ~Awaiting(MaxPrompts)
  /\ state.busySessionIDs = {"s1"}
  /\ state.lastError = RequestFailed
  /\ HasKey(state.messages, "s2")
  /\ \E text \in Texts : IsBlank(text) /\ text # <<>> /\ ENABLED PromptCall(MaxPrompts, "s2", text)

(***************************************************************************)
(* Claims about failed requests.                                           *)
(***************************************************************************)
Kinds == {"refreshSessions", "loadMessages", "createSession", "deleteSession", "prompt"}
Calls == {Call(kind, sessionID) : <<kind, sessionID>> \in Kinds \X (SessionIDs \cup {Undefined})}

\* the step is the one at which the request of call fails
FailsAt(call) ==
  /\ InFlight(call)
  /\ pending' = Settle(call)
  /\ settled' = Outcome(call, FALSE)

\* C18: when the request of refreshSessions, loadMessages, createSession,
\* deleteSession or prompt fails, the failure is recorded as the lastError string
\* (the action catches the error instead of rejecting).
C18_FailureRecorded ==
  [][\A call \in Calls : FailsAt(call) => state'.lastError = RequestFailed]_vars

\* what a failed request must leave alone
Kept(st) ==
  <<st.sessions, st.messages, st.activeSessionID, st.activeSession, st.activeMessages>>

\* C19: the step at which a refreshSessions, loadMessages or prompt request fails
\* leaves the session list, the messages map, activeSessionID, activeSession and
\* activeMessages as they were; it changes only lastError and the call's own
\* loading or busy flag.
C19_FailureKeepsState ==
  [][\A call \in Calls :
       (FailsAt(call) /\ call.kind \in {"refreshSessions", "loadMessages", "prompt"}) =>
         /\ Kept(state') = Kept(state)
         /\ state'.lastError = RequestFailed
         /\ state' = [state EXCEPT
                        !.lastError = RequestFailed,
                        !.isLoadingSessions = IF call.kind = "refreshSessions" THEN FALSE ELSE @,
                        !.isLoadingMessages = IF call.kind = "loadMessages" THEN FALSE ELSE @,
                        !.busySessionIDs = IF call.kind = "prompt" THEN @ \ {call.sessionID}
                                           ELSE @]]_vars

\* a refreshSessions request has just failed with sessions listed, a session
\* selected and its messages loaded
C19_Witness ==
  /\ settled = Outcome(Call("refreshSessions", Undefined), FALSE)
  /\ state.sessions # <<>>
  /\ state.activeSessionID = "s1"
  /\ state.activeSession # None
  /\ state.activeMessages # <<>>
  /\ state.lastError = RequestFailed
  /\ ~state.isLoadingSessions

(***************************************************************************)
(* Claims about the loading flags.                                         *)
(***************************************************************************)
Refreshing == InFlight(Call("refreshSessions", Undefined))
Loading == \E sessionID \in SessionIDs : InFlight(Call("loadMessages", sessionID))

\* C20: whenever no refreshSessions call is in flight isLoadingSessions is false,
\* and whenever no loadMessages call is in flight isLoadingMessages is false,
\* however the calls ended.
C20_LoadingFlagsSettle ==
  /\ ~Refreshing => ~state.isLoadingSessions
  /\ ~Loading => ~state.isLoadingMessages

\* a loadMessages request has just failed after the session list was fetched
C20_Witness ==
  /\ settled = Outcome(Call("loadMessages", "s1"), FALSE)
  /\ pending = EmptyBag
  /\ state.sessions # <<>>
  /\ state.lastError = RequestFailed

\* the same for the provider's cells and the requests of its effects
CtxRefreshing == \E call \in BagToSet(ctxPending) : call.kind = "fetchSessions"
CtxLoading == \E call \in BagToSet(ctxPending) : call.kind = "fetchMessages"
CtxLoadingFlagsSettle ==
  /\ ~CtxRefreshing => ~ctx.isLoadingSessions
  /\ ~CtxLoading => ~ctx.isLoadingMessages

\* C21: from the start of a refreshSessions call until that call's response or
\* failure is handled isLoadingSessions is true, also when such calls overlap; and
\* isLoadingMessages is true for as long as a loadMessages call is in flight.
C21_LoadingWhileInFlight ==
  /\ Refreshing => state.isLoadingSessions
  /\ Loading => state.isLoadingMessages

(***************************************************************************)
(* Claims about the session list and the active session.                   *)
(***************************************************************************)
\* list holds the entries of result, each once, newest first
SortedCopy(list, result) ==
  /\ Len(list) = Len(result)
  /\ Range(list) = Range(result)
  /\ SortedDesc(list)

\* the active id the claim expects after result is applied over active id
ExpectedActive(activeSessionID, list, result) ==
  IF activeSessionID # Undefined /\ activeSessionID \in Ids(result) THEN activeSessionID
  ELSE IF result = <<>> THEN Undefined
  ELSE list[1].id

\* C22, the zustand store: a refreshSessions response makes the session list the
\* fetched list sorted descending by time.updated; activeSessionID stays if the
\* fetched list has it, else becomes the first id of the sorted list, or undefined
\* when the list is empty; activeSession and activeMessages follow the resulting id.
C22_RefreshSessionsApplied ==
  Refreshing =>
    \A result \in SessionsUniverse.sessionLists :
      LET after == refreshSessionsResolved(state, result)
          id == after.activeSessionID
      IN /\ SortedCopy(after.sessions, result)
         /\ id = ExpectedActive(state.activeSessionID, after.sessions, result)
         /\ after.activeSession =
              IF id = Undefined THEN None
              ELSE Some(CHOOSE session \in Range(result) : session.id = id)
         /\ after.activeMessages =
              IF id = Undefined THEN <<>> ELSE GetOr(state.messages, id)

\* C22, the provider: the same for the response of each fetchSessions in flight.
C22_CtxRefreshSessionsApplied ==
  \A call \in BagToSet(ctxPending) :
    call.kind = "fetchSessions" =>
      \A result \in CtxUniverse.sessionLists :
        LET after == ctx_refreshSessionsResolved(ctx, call.activeSessionID, result)
        IN /\ SortedCopy(after.sessions, result)
           /\ after.activeSessionID =
                ExpectedActive(ctx.activeSessionID, after.sessions, result)

\* the id of the first session of list other than id, undefined if there is none
FirstOther(list, id) ==
  LET others == {i \in 1..Len(list) : list[i].id # id}
  IN IF others = {} THEN Undefined
     ELSE list[CHOOSE i \in others : \A j \in others : i <= j].id

\* the two ways a session is removed: deleteSession's response, session.deleted
Removals(st, sessionID) ==
  {deleteSessionResolved(st, sessionID)}
    \cup {FoldEvent(st, [type |-> "session.deleted", info |-> info]) :
            info \in {i \in SessionInfo : i.id = sessionID}}

\* C23: removing the active session makes activeSessionID the id of the first
\* session remaining in the list, or undefined with activeMessages = [] when none
\* remains; removing another session leaves activeSessionID, activeSession and
\* activeMessages as they were.
C23_ActiveAfterRemoval ==
  \A sessionID \in SessionIDs : \A after \in Removals(state, sessionID) :
    IF state.activeSessionID = sessionID
    THEN /\ after.activeSessionID = FirstOther(state.sessions, sessionID)
         /\ after.activeSessionID = Undefined =>
              after.activeSession = None /\ after.activeMessages = <<>>
    ELSE /\ after.activeSessionID = state.activeSessionID
         /\ after.activeSession = state.activeSession
         /\ after.activeMessages = state.activeMessages

\* where the removals happen: s1 is the only session, active with its messages
\* shown, and deleteSession(s1) awaits its response
C23_Witness ==
  /\ Ids(state.sessions) = {"s1"}
  /\ state.activeSessionID = "s1"
  /\ state.activeMessages # <<>>
  /\ InFlight(Call("deleteSession", "s1"))

\* after is before without session sessionID: no entry, no messages, not busy,
\* and the other sessions' messages and busy flags as they were
RemovedEverywhere(before, after, sessionID) ==
  /\ sessionID \notin Ids(after.sessions)
  /\ ~HasKey(after.messages, sessionID)
  /\ sessionID \notin after.busySessionIDs
  /\ \A other \in SessionIDs \ {sessionID} :
       /\ HasKey(after.messages, other) = HasKey(before.messages, other)
       /\ GetOr(after.messages, other) = GetOr(before.messages, other)
       /\ (other \in after.busySessionIDs) = (other \in before.busySessionIDs)

\* C24, the zustand store: right after a session is removed (deleteSession's
\* response or session.deleted) the session list has no entry with its id, the
\* messages map no key for it and busySessionIDs does not hold it; the other
\* sessions' message lists and busy flags are unchanged.
C24_RemovedEverywhere ==
  \A sessionID \in SessionIDs : \A after \in Removals(state, sessionID) :
    RemovedEverywhere(state, after, sessionID)

\* C24, the provider: the same right after session.deleted is handled.
C24_CtxRemovedEverywhere ==
  \A info \in CtxUniverse.sessionInfos :
    RemovedEverywhere(ctx, handleEvent(ctx, [type |-> "session.deleted", info |-> info]),
                      info.id)

\* list is before with session merged by id: session is there once, the entries
\* with other ids are those of before, newest first
MergedOnce(before, list, session) ==
  /\ Cardinality({i \in 1..Len(list) : list[i].id = session.id}) = 1
  /\ session \in Range(list)
  /\ {x \in Range(list) : x.id # session.id} = {x \in Range(before) : x.id # session.id}
  /\ NoDupIds(list)
  /\ SortedDesc(list)

\* C25: when createSession succeeds the returned session is in the session list
\* exactly once (merged by id, the list sorted descending by time.updated),
\* activeSessionID is its id, activeSession is it, activeMessages is the cached
\* list for that id or empty; the messages map and the busy set are unchanged.
C25_CreatedSessionActive ==
  \A session \in SessionsUniverse.sessionInfos :
    LET after == createSessionResolved(state, session)
    IN /\ MergedOnce(state.sessions, after.sessions, session)
       /\ after.activeSessionID = session.id
       /\ after.activeSession = Some(session)
       /\ after.activeMessages = GetOr(state.messages, session.id)
       /\ after.messages = state.messages
       /\ after.busySessionIDs = state.busySessionIDs

\* where createSession returns: it awaits its response, both sessions are listed
\* (so the returned one replaces an entry), s2 is active, s1 has cached messages
C25_Witness ==
  /\ InFlight(Call("createSession", Undefined))
  /\ Ids(state.sessions) = {"s1", "s2"}
  /\ state.activeSessionID = "s2"
  /\ GetOr(state.messages, "s1") # <<>>

\* C25, the provider: activeSession and activeMessages are derived from the cells
C25_CtxCreatedSessionActive ==
  \A session \in CtxUniverse.sessionInfos :
    LET after == createSessionAction(ctx, session)
    IN /\ MergedOnce(ctx.sessions, after.sessions, session)
       /\ after.activeSessionID = session.id
       /\ ctx_activeSession(after) = Some(session)
       /\ ctx_activeMessages(after) = GetOr(ctx.messages, session.id)
       /\ after.messages = ctx.messages
       /\ after.busySessionIDs = ctx.busySessionIDs

(***************************************************************************)
(* Claims about session.error.                                             *)
(***************************************************************************)
\* error.data.message and error.message: absent, a string, the empty string, or
\* a value that is no string
MessageValues == {None, StringValue("boom"), StringValue(""), OtherValue("{\"code\":1}")}
TopMessageValues == {None, StringValue("top"), OtherValue("[]")}
ErrorValues == [dataMessage : MessageValues, message : TopMessageValues]

\* the value as a string
AsString(value) == IF value.isString THEN value.text ELSE value.json

OpenSources(s) == {n \in 1..Len(s.sources) : s.sources[n].open}

\* at most one source is open; while mounted it is the one the effect holds, and
\* it was opened for the stored config; while unmounted none is open
OneSubscription(s) ==
  /\ Cardinality(OpenSources(s)) <= 1
  /\ s.mounted => OpenSources(s) = {s.current} /\ s.sources[s.current].config = s.config
  /\ ~s.mounted => OpenSources(s) = {}

\* C27: at most one event subscription is open at any time: when updateConfig
\* changes baseUrl or directory the subscription of the previous config is closed
\* when the one for the new config is opened, unmounting closes the open one, and
\* an event is folded only when it comes from a subscription that is open.
C27_OneSubscription ==
  /\ [](OneSubscription(sub) /\ OneSubscription(ctxSub))
  /\ [][/\ sub'.from # 0 => sub.sources[sub'.from].open
        /\ ctxSub'.from # 0 => ctxSub.sources[ctxSub'.from].open]_vars

\* the config was changed while mounted: the first source is closed, the second,
\* opened for the new config, is open and has just delivered an event
C27_Witness ==
  /\ sub.mounted
  /\ sub.config = [baseUrl |-> "u2", directory |-> "d1"]
  /\ Len(sub.sources) = 2
  /\ ~sub.sources[1].open
  /\ sub.sources[2].open
  /\ sub.from = 2

(***************************************************************************)
(* File tabs (context/local.tsx).                                          *)
(***************************************************************************)
IsOpen(f, path) == \E i \in 1..Len(f.opened) : f.opened[i] = path

\* the tab immediately to the left of path in list; the first of the remaining
\* tabs when path is the first one
LeftOf(list, path) ==
  LET index == FindIndexOfPath(list, path)
  IN IF index > 0 THEN ElementAt(list, index - 1)
     ELSE ElementAt(WithoutPath(list, path), 0)

\* C28: close(path) removes path from the opened list; when path was the active
\* tab, the tab immediately to its left becomes active (the tab at index 0 when
\* path was the first one); when path was not active, the active tab is unchanged.
C28_CloseActivatesLeft ==
  \A path \in Paths :
    LET after == close(file, path)
    IN /\ ~IsOpen(after, path)
       /\ (file.active = path /\ IsOpen(file, path))
             => after.active = LeftOf(file.opened, path)
       /\ file.active # path => after.active = file.active

\* the other two parts of C28 alone: path leaves the list, and closing a tab
\* that is not active leaves the active tab
C28_CloseRemoves ==
  \A path \in Paths :
    LET after == close(file, path)
    IN /\ ~IsOpen(after, path)
       /\ file.active # path => after.active = file.active

\* open(path, { pinned }) run to its end, the listing of the parent answered
opened(f, path, pinned) ==
  IF ~Known(f, path) /\ Parent(path) # ""
  THEN openRest(listed(f, Parent(path)), path, pinned)
  ELSE openRest(f, path, pinned)

\* open(path) completed without error: path is open and active, its node is
\* known and its content is being read
Reopened(f, path) ==
  /\ ~f.threw
  /\ IsOpen(f, path)
  /\ f.active = path
  /\ Known(f, path)
  /\ FileCall("read", path, FALSE) \in f.calls

\* C29: after close(path) discarded the node of an open tab, open(path) works
\* for every path, top-level or nested: it completes without error, path is open
\* and active, its node is known again and its content is fetched anew.
C29_ReopenAfterClose ==
  \A path \in Paths : \A pinned \in BOOLEAN :
    (IsOpen(file, path) /\ Known(file, path))
      => Reopened(opened(close(Started(file), path), path, pinned), path)

\* the same for the nested paths alone, every other open tab being known
C29_NestedReopenAfterClose ==
  \A path \in Paths : \A pinned \in BOOLEAN :
    (/\ Parent(path) # ""
     /\ IsOpen(file, path)
     /\ \A i \in 1..Len(file.opened) : Known(file, file.opened[i]))
      => Reopened(opened(close(Started(file), path), path, pinned), path)

\* the tabs of list that are pinned in f come before path in after's list, in
\* the order they have in list
PinnedKeptBefore(f, after, path) ==
  LET pinnedTabs == {p \in Paths \ {path} : IsOpen(f, p) /\ Known(f, p) /\ f.node[p][1].pinned}
  IN /\ \A p \in pinnedTabs :
          /\ IsOpen(after, p)
          /\ FindIndexOfPath(after.opened, p) < FindIndexOfPath(after.opened, path)
     /\ \A p, q \in pinnedTabs :
          FindIndexOfPath(f.opened, p) < FindIndexOfPath(f.opened, q)
            => FindIndexOfPath(after.opened, p) < FindIndexOfPath(after.opened, q)

\* C30: open(path) adds path to the opened list: the list then holds every tab
\* it held before plus path, path after the pinned tabs whose order is kept,
\* and path is active; when path is already open the list is unchanged and
\* path becomes active.
C30_OpenKeepsTabs ==
  \A path \in Paths : \A pinned \in BOOLEAN :
    LET after == opened(Started(file), path, pinned)
    IN ~after.threw =>
         /\ after.active = path
         /\ IsOpen(after, path)
         /\ IsOpen(file, path) => after.opened = file.opened
         /\ ~IsOpen(file, path) =>
              /\ \A p \in Paths : IsOpen(file, p) => IsOpen(after, p)
              /\ PinnedKeptBefore(file, after, path)

\* the same without the tabs that are not pinned: path is active and open, the
\* pinned tabs stay before it in their order, an open path leaves the list
C30_OpenKeepsPinnedTabs ==
  \A path \in Paths : \A pinned \in BOOLEAN :
    LET after == opened(Started(file), path, pinned)
    IN ~after.threw =>
         /\ after.active = path
         /\ IsOpen(after, path)
         /\ IsOpen(file, path) => after.opened = file.opened
         /\ ~IsOpen(file, path) => PinnedKeptBefore(file, after, path)

(***************************************************************************)
(* Directory nodes (context/local.tsx).                                    *)
(***************************************************************************)
\* C31: over any sequence of expand and collapse calls on a directory, exactly
\* the first expand issues a child-listing fetch and marks the node loaded;
\* every later expand only sets expanded, and collapse only clears expanded.
C31_FirstExpandLists ==
  \A dir \in Dirs :
    LET log == file.log[dir]
        expandedBefore == "expand" \in Range(log)
    IN /\ file.fetched[dir] = IF expandedBefore THEN 1 ELSE 0
       /\ file.tree[dir].loaded = expandedBefore
       /\ file.tree[dir].expanded = (log # <<>> /\ log[Len(log)] = "expand")

\* d was expanded, collapsed and expanded again, and listed once
C31_Witness ==
  /\ file.log["d"] = <<"expand", "collapse", "expand">>
  /\ file.fetched["d"] = 1
  /\ file.tree["d"].expanded

(***************************************************************************)
(* Changed files (context/local.tsx).                                      *)
(***************************************************************************)
\* the paths changed(path) is asked about: the files and the directories
QueryPaths == Files \cup Dirs

\* path is among the changed paths, or a changed file lies in the directory path
InOrUnder(among, path) == path \in among \/ \E p \in among : Parent(p) = path

\* C32: changed(path) is true if path is in the current changed-set or the
\* changed-set holds a path nested under path, and false otherwise; a changed
\* path that only shares a name prefix with path does not make it true.
C32_ChangedIffInOrUnder ==
  \A path \in QueryPaths : changed(file, path) <=> InOrUnder(file.changes, path)

\* the same for the part of changed(path) that looks at the changed-set
C32_ChangedInSetIffInOrUnder ==
  \A path \in QueryPaths :
    changedInSet(file.changes, path) <=> InOrUnder(file.changes, path)

(***************************************************************************)
(* File watcher (context/local.tsx).                                       *)
(***************************************************************************)
\* the file named s lies in the version-control directory
UnderGit(s) == Named(relative(s)) = ".git/x"

\* C33: a file.watcher.updated event for a path under .git/ is ignored: no
\* content is read and no refresh of the changed files is scheduled; an event
\* for any other path reads its content again and schedules a refresh.
C33_GitEventsIgnored ==
  \A s \in WatchedFiles :
    LET after == watcherUpdated(file, s)
    IN IF UnderGit(s)
       THEN after.calls = file.calls /\ after.timers = file.timers
       ELSE /\ FileCall("read", Named(relative(s)), FALSE) \in after.calls
            /\ after.timers = file.timers + 1

\* what holds of C33: no content is read for a path under .git/, and every
\* other path is read again and schedules a refresh
C33_GitEventsNotLoaded ==
  \A s \in WatchedFiles :
    LET after == watcherUpdated(file, s)
    IN IF UnderGit(s)
       THEN after.calls = file.calls
       ELSE /\ FileCall("read", Named(relative(s)), FALSE) \in after.calls
            /\ after.timers = file.timers + 1

\* C34: the refresh of the changed files is debounced: watcher events less
\* than one second apart, each arriving while the timer of the one before
\* runs, lead to a single refresh; at most one refresh is pending.
C34_RefreshDebounced == file.timers <= 1 /\ file.fired <= 1

(***************************************************************************)
(* Recent models (context/local.tsx).                                      *)
(***************************************************************************)
\* no (providerID, modelID) pair is twice in list
NoPairTwice(list) == \A i, j \in 1..Len(list) : list[i] = list[j] => i = j

\* the pairs of list other than key are all in after
OtherPairsKept(list, after, key) ==
  \A i \in 1..Len(list) : list[i] # key => list[i] \in Range(after)

\* C35: after model.set(key, {recent: true}), from whatever list was stored, the
\* recent list has at most 5 entries, has key first and holds each
\* (providerID, modelID) pair at most once, two keys being duplicates only
\* when both ids are equal: of a list of fewer than 5, only key itself is dropped.
C35_RecentBounded ==
  \A key \in ModelKeys :
    LET after == set(modelStore, Some(key), TRUE).recent
    IN /\ Len(after) <= 5
       /\ after[1] = key
       /\ NoPairTwice(after)
       /\ Len(modelStore.recent) < 5 => OtherPairsKept(modelStore.recent, after, key)

\* what holds of C35 from every stored list: key comes first and no pair is twice
C35_RecentFirstAndUnique ==
  \A key \in ModelKeys :
    LET after == set(modelStore, Some(key), TRUE).recent
    IN after[1] = key /\ NoPairTwice(after)

\* and from a list of at most 5: the list stays within 5
C35_RecentStaysBounded ==
  \A key \in ModelKeys :
    Len(modelStore.recent) <= 5
      => Len(set(modelStore, Some(key), TRUE).recent) <= 5

\* the two divergences apart: a longer stored list stays longer than 5
C35_LongListCut ==
  \A key \in ModelKeys : Len(set(modelStore, Some(key), TRUE).recent) <= 5

\* and a pair that differs from key is dropped as its duplicate
C35_OnlyEqualPairsDropped ==
  \A key \in ModelKeys :
    Len(modelStore.recent) < 5
      => OtherPairsKept(modelStore.recent, set(modelStore, Some(key), TRUE).recent, key)

(***************************************************************************)
(* The active session of the zustand store.                                *)
(***************************************************************************)
\* C36: selectSession being called with ids of listed sessions only, in every
\* reachable state activeSessionID is undefined or the id of a session of the
\* list, and activeSession is exactly that list entry, across refreshSessions
\* responses, createSession, deleteSession and session events in any order.
C36_ActiveIsListed ==
  /\ state.activeSessionID = Undefined \/ state.activeSessionID \in Ids(state.sessions)
  /\ state.activeSession = FindSession(state.sessions, state.activeSessionID)

\* s1 is active among two sessions and carries the later stamp
C36_Witness ==
  /\ Len(state.sessions) = 2
  /\ state.activeSessionID = "s1"
  /\ state.activeSession = Some([id |-> "s1", updated |-> MaxTime])

(***************************************************************************)
(* Responses and events that arrive after the removal of their session.    *)
(***************************************************************************)
\* what arrives for sessionID after st: the response of a prompt or of a
\* loadMessages call in flight, or a message.created event
LateArrivals(st, sessionID) ==
  {promptResolved(st, sessionID, response) :
     response \in {m \in MainUniverse.messages[sessionID] :
                     InFlight(Call("prompt", sessionID))}}
    \cup {loadMessagesResolved(st, sessionID, result) :
            result \in {l \in MainUniverse.messageLists[sessionID] :
                          InFlight(Call("loadMessages", sessionID))}}
    \cup {FoldEvent(st, [type |-> "message.created", info |-> message.info,
                          parts |-> message.parts]) :
            message \in MainUniverse.messages[sessionID]}

\* C37: once a session is removed (deleteSession's response or session.deleted),
\* a prompt response, a loadMessages response or a message.created event for it
\* that arrives afterwards adds no messages entry for its id, and a prompt for
\* it that is in flight does not leave its id in busySessionIDs.
C37_RemovedStaysRemoved ==
  \A sessionID \in Ids(state.sessions) : \A removed \in Removals(state, sessionID) :
    \A after \in LateArrivals(removed, sessionID) :
      /\ ~HasKey(after.messages, sessionID)
      /\ sessionID \notin after.busySessionIDs

\* what holds of C37: the id is not left in busySessionIDs
C37_RemovedNotBusy ==
  \A sessionID \in Ids(state.sessions) : \A removed \in Removals(state, sessionID) :
    \A after \in LateArrivals(removed, sessionID) :
      sessionID \notin after.busySessionIDs

(***************************************************************************)
(* A refreshSessions response older than the session list.                 *)
(***************************************************************************)
\* the sessions that are not listed yet
Unlisted(st) == {session \in SessionsUniverse.sessionInfos : session.id \notin Ids(st.sessions)}

\* what the server answers to a request made before session existed
ListsWithout(session) ==
  {result \in SessionsUniverse.sessionLists : session.id \notin Ids(result)}

\* C38: a session that createSession returned, or that a session.updated event
\* inserted, stays in the session list, and the created one stays active, when
\* the response of a refreshSessions call made before the session existed is
\* applied afterwards.
C38_StaleRefreshKeepsSession ==
  InFlight(Call("refreshSessions", Undefined)) =>
    \A session \in Unlisted(state) : \A result \in ListsWithout(session) :
      LET created == refreshSessionsResolved(createSessionResolved(state, session), result)
          inserted == refreshSessionsResolved(mergeSession(state, session), result)
      IN /\ session.id \in Ids(created.sessions)
         /\ created.activeSessionID = session.id
         /\ session.id \in Ids(inserted.sessions)

(***************************************************************************)
(* The tabs of the file store.                                             *)
(***************************************************************************)
\* C39: in every state reached by open, close and move calls, open calls
\* overlapping while they await a parent listing, the active tab is undefined
\* or in the opened list, and the opened list holds no path twice.
C39_ActiveTabIsOpen ==
  /\ file.active = Undefined \/ IsOpen(file, file.active)
  /\ \A i, j \in 1..Len(file.opened) : file.opened[i] = file.opened[j] => i = j

\* a was closed, b and d/c are open and b is active
C39_Witness ==
  /\ ~Known(file, "a")
  /\ file.opened = <<"b", "d/c">>
  /\ file.active = "b"

(***************************************************************************)
(* The status of the changed files.                                        *)
(***************************************************************************)
\* a listing fetched for a changed path whose node was unknown is awaited
StatusFetching == \E call \in file.calls : call.kind = "status"

\* C40: a node carries a status only while its path is in the changed-set:
\* once every update of the changed-set is reconciled and every listing
\* fetched for a changed unknown path has resolved, no node whose path is not
\* in the changed-set has a status, and changed(path) is false for a path that
\* is neither in the changed-set nor above one of its paths.
C40_StatusOnlyWhileChanged ==
  ~StatusFetching =>
    /\ file.status \subseteq file.changes
    /\ \A path \in QueryPaths :
         ~InOrUnder(file.changes, path) => ~changed(file, path)

\* what holds of C40: the paths that were in the changed-set when the effect
\* ran last and whose node is known carry a status
C40_ChangedKnownHaveStatus ==
  ~StatusFetching =>
    \A path \in file.changes : Known(file, path) => path \in file.status

====
